---- MODULE Spec2Model ----
(***************************************************************************)
(* Spiralogic phase gating (src/src/core/spiralogic/phase_gating.py) and   *)
(* the AIN memory bridge (src/src/core/memory/ain_integration.py).         *)
(*                                                                         *)
(* Units: time is counted in days (datetime/timedelta), every context      *)
(* signal, weight, threshold and resonance is counted in tenths            *)
(* (0.7 is 7, a count of 3 is 30, a weight of 1.5 is 15).                  *)
(***************************************************************************)
EXTENDS Integers, Sequences, FiniteSets, TLC

VARIABLES now, user_phase_data, last,
          memory_store, symbolic_threads, narrative_arcs, collective_patterns, frames

\* the state of the AINMemoryBridge besides its PhaseGatingSystem
bridge_vars == <<memory_store, symbolic_threads, narrative_arcs, collective_patterns>>

\* frames: the calls in flight, by caller, each with its position and its locals
vars == <<now, user_phase_data, bridge_vars, frames, last>>

-----------------------------------------------------------------------------
(* Bounds of the model *)

MaxTime == 1

MaxHistory == 1

MaxBreakthroughs == 1

MaxMemories == 1

Users == {"u1", "u2"}

EvalUsers == {"u1"}

-----------------------------------------------------------------------------
(* SpiralPhase and the constants of the gating code *)

INITIATION == "initiation"
EXPLORATION == "exploration"
CHALLENGE == "challenge"
TRANSFORMATION == "transformation"
INTEGRATION == "integration"
MASTERY == "mastery"
TRANSCENDENCE == "transcendence"

SpiralPhase ==
    {INITIATION, EXPLORATION, CHALLENGE, TRANSFORMATION, INTEGRATION, MASTERY,
     TRANSCENDENCE}

\* Python's None, as a return value and as a missing dictionary entry
None == "none"

\* a number that is missing (None where a number is expected)
Absent == 0 - 1

\* a context value that is neither a number nor a boolean (None, a string, a list)
Malformed == 0 - 1000

\* the outcome of a call that raises TypeError
TypeError == "TypeError"

DefaultMinimumDuration == 7

DefaultCollectiveResonanceThreshold == 7

ReadinessThresholdNum == 7

ReadinessThresholdDen == 10

BaselineResonance == 5

BreakthroughIncrement == 1

MaxResonance == 10

InitialSpiralCount == 1

-----------------------------------------------------------------------------
(* Context snapshots: a dictionary from signal name to number *)

EmptyContext == [k \in {} |-> 0]

Min(a, b) == IF a <= b THEN a ELSE b

\* ctx.get(key, 0)
Get(ctx, key) == IF key \in DOMAIN ctx THEN ctx[key] ELSE 0

\* PhaseTransitionCondition; check_function is lambda ctx: ctx.get(key, 0) cmp threshold
Condition(name, key, cmp, threshold, weight, required) ==
    [name |-> name, key |-> key, cmp |-> cmp, threshold |-> threshold,
     weight |-> weight, required |-> required]

\* faulty variant of CheckFunction: every comparison is taken as >=
CheckFunctionLoose(c, ctx) == Get(ctx, c.key) >= c.threshold

CheckFunction(c, ctx) ==
    IF c.cmp = "gt" THEN Get(ctx, c.key) > c.threshold
                    ELSE Get(ctx, c.key) >= c.threshold

\* PhaseGate(...) with the dataclass defaults for the keyword arguments left out
PhaseGate(from, to, conditions, kw) ==
    [from_phase |-> from,
     to_phase |-> to,
     conditions |-> conditions,
     minimum_duration |->
        IF "minimum_duration" \in DOMAIN kw THEN kw.minimum_duration
                                            ELSE DefaultMinimumDuration,
     ritual_required |->
        IF "ritual_required" \in DOMAIN kw THEN kw.ritual_required ELSE TRUE,
     collective_resonance_threshold |->
        IF "collective_resonance_threshold" \in DOMAIN kw
        THEN kw.collective_resonance_threshold
        ELSE DefaultCollectiveResonanceThreshold]

\* the list _initialize_phase_gates returns
InitializePhaseGates ==
    << PhaseGate(INITIATION, EXPLORATION,
         << Condition("vision_clarified", "vision_clarity", "gt", 7, 20, TRUE),
            Condition("first_action_taken", "actions_taken", "gt", 0, 15, FALSE),
            Condition("commitment_declared", "commitment_level", "gt", 6, 10, FALSE) >>,
         [minimum_duration |-> 3, ritual_required |-> TRUE]),
       PhaseGate(EXPLORATION, CHALLENGE,
         << Condition("edges_found", "edges_encountered", "ge", 30, 15, TRUE),
            Condition("patterns_recognized", "patterns_seen", "ge", 20, 10, FALSE),
            Condition("resistance_felt", "resistance_level", "gt", 5, 10, FALSE) >>,
         [minimum_duration |-> 7]),
       PhaseGate(CHALLENGE, TRANSFORMATION,
         << Condition("crisis_faced", "crisis_intensity", "gt", 8, 20, TRUE),
            Condition("old_identity_released", "identity_fluidity", "gt", 7, 15, FALSE),
            Condition("surrender_achieved", "surrender_level", "gt", 6, 15, FALSE) >>,
         [minimum_duration |-> 14, ritual_required |-> TRUE,
          collective_resonance_threshold |-> 8]),
       PhaseGate(TRANSFORMATION, INTEGRATION,
         << Condition("rebirth_complete", "rebirth_markers", "ge", 30, 20, TRUE),
            Condition("new_identity_emerging", "new_identity_coherence", "gt", 6, 10, FALSE),
            Condition("gifts_recognized", "gifts_awareness", "gt", 5, 10, FALSE) >>,
         [minimum_duration |-> 7]),
       PhaseGate(INTEGRATION, MASTERY,
         << Condition("wisdom_embodied", "embodiment_level", "gt", 8, 15, TRUE),
            Condition("teaching_impulse", "teaching_desire", "gt", 6, 10, FALSE),
            Condition("stability_achieved", "life_stability", "gt", 7, 10, FALSE) >>,
         [minimum_duration |-> 21]),
       PhaseGate(MASTERY, TRANSCENDENCE,
         << Condition("ego_transcended", "ego_dissolution", "gt", 8, 20, TRUE),
            Condition("unity_experienced", "unity_experiences", "ge", 30, 15, FALSE),
            Condition("service_embodied", "service_orientation", "gt", 9, 10, FALSE) >>,
         [minimum_duration |-> 28, ritual_required |-> TRUE,
          collective_resonance_threshold |-> 9]),
       PhaseGate(TRANSCENDENCE, INITIATION,
         << Condition("cycle_complete", "completion_sense", "gt", 9, 10, TRUE),
            Condition("new_calling", "new_vision_emerging", "gt", 5, 10, FALSE) >>,
         [minimum_duration |-> 7]) >>

\* faulty variant of phase_gates: the gate closing the cycle is left out
PhaseGatesWithoutLast == SubSeq(InitializePhaseGates, 1, Len(InitializePhaseGates) - 1)

\* self.phase_gates, set once by __init__
phase_gates == InitializePhaseGates

\* "Find applicable gate": the index of the first gate leaving the phase, 0 when none
ApplicableGateIndex(phase) ==
    LET hits == {i \in DOMAIN phase_gates : phase_gates[i].from_phase = phase}
    IN IF hits = {} THEN 0 ELSE CHOOSE i \in hits : \A j \in hits : i <= j

HasGate(phase) == ApplicableGateIndex(phase) # 0

ApplicableGate(phase) == phase_gates[ApplicableGateIndex(phase)]

-----------------------------------------------------------------------------
(* check_phase_transition *)

\* The conditions of the gate (by position) whose check_function holds on ctx
MetConditions(gate, ctx) ==
    {i \in DOMAIN gate.conditions : CheckFunction(gate.conditions[i], ctx)}

RECURSIVE WeightSum(_, _)
WeightSum(conditions, S) ==
    IF S = {} THEN 0
    ELSE LET i == CHOOSE x \in S : TRUE
         IN conditions[i].weight + WeightSum(conditions, S \ {i})

AchievedWeight(gate, ctx) == WeightSum(gate.conditions, MetConditions(gate, ctx))

TotalWeight(gate) == WeightSum(gate.conditions, DOMAIN gate.conditions)

\* required_met: no required condition was found unmet
RequiredMet(gate, ctx) ==
    \A i \in DOMAIN gate.conditions :
        gate.conditions[i].required => i \in MetConditions(gate, ctx)

\* faulty variant of ReadinessReached: readiness >= 0.4
ReadinessReachedLow(achieved, total) ==
    IF total > 0 THEN achieved * 10 >= 4 * total ELSE FALSE

\* faulty variant of ReadinessReached: readiness > 0.7
ReadinessReachedStrict(achieved, total) ==
    IF total > 0
    THEN achieved * ReadinessThresholdDen > ReadinessThresholdNum * total
    ELSE FALSE

\* readiness = achieved_weight / total_weight if total_weight > 0 else 0;
\* readiness >= 0.7, as an exact comparison of the two weights
ReadinessReached(achieved, total) ==
    IF total > 0
    THEN achieved * ReadinessThresholdDen >= ReadinessThresholdNum * total
    ELSE FALSE

\* faulty variant of DurationMet: the last day of the minimum duration is not required
DurationMetEarly(data, gate, t) ==
    ~((t - data.phase_entry_time) + 1 < gate.minimum_duration)

\* time_in_phase < minimum_duration returns None
DurationMet(data, gate, t) == ~((t - data.phase_entry_time) < gate.minimum_duration)

\* the collective-resonance branch: a truthy threshold is compared with the signal
ResonanceMet(gate, ctx) ==
    IF gate.collective_resonance_threshold # 0
    THEN Get(ctx, "collective_resonance") >= gate.collective_resonance_threshold
    ELSE TRUE

\* ctx.get(key, 0) > threshold raises TypeError when the value is not a number
Raises(c, ctx) == Get(ctx, c.key) = Malformed

\* the position of the first condition whose check_function raises, 0 when none does
FirstRaising(gate, ctx) ==
    LET hits == {i \in DOMAIN gate.conditions : Raises(gate.conditions[i], ctx)}
    IN IF hits = {} THEN 0 ELSE CHOOSE i \in hits : \A j \in hits : i <= j

\* the comparison of collective_resonance with the threshold, reached when the
\* criteria are met and the threshold is truthy, raises TypeError
ResonanceRaises(gate, ctx) ==
    /\ RequiredMet(gate, ctx)
    /\ ReadinessReached(AchievedWeight(gate, ctx), TotalWeight(gate))
    /\ gate.collective_resonance_threshold # 0
    /\ Get(ctx, "collective_resonance") = Malformed

\* the names the loop writes into completed_conditions: those of the conditions met,
\* up to the condition at which the loop is left by an exception
CompletedNames(gate, ctx) ==
    {gate.conditions[i].name :
        i \in {j \in MetConditions(gate, ctx) :
                  FirstRaising(gate, ctx) = 0 \/ j < FirstRaising(gate, ctx)}}

\* The value returned for a stored user whose phase has a gate, or the exception raised
GateDecision(data, gate, ctx, t) ==
    IF ~DurationMet(data, gate, t) THEN None
    ELSE IF FirstRaising(gate, ctx) # 0 \/ ResonanceRaises(gate, ctx) THEN TypeError
    ELSE IF RequiredMet(gate, ctx)
            /\ ReadinessReached(AchievedWeight(gate, ctx), TotalWeight(gate))
            /\ ResonanceMet(gate, ctx)
         THEN gate.to_phase
         ELSE None

\* the conditions recorded before the duration is looked at
DataAfterCheckEarly(data, gate, ctx, t) ==
    [data EXCEPT !.completed_conditions = @ \cup CompletedNames(gate, ctx)]

\* The user's record after the call
DataAfterCheck(data, gate, ctx, t) ==
    IF ~DurationMet(data, gate, t) THEN data
    ELSE [data EXCEPT !.completed_conditions = @ \cup CompletedNames(gate, ctx)]

\* check_phase_transition(user_id, context): <<returned value, user_phase_data after>>
CheckPhaseTransition(upd, user_id, ctx, t) ==
    IF user_id \notin DOMAIN upd THEN [ret |-> None, data |-> upd]
    ELSE IF ~HasGate(upd[user_id].current_phase) THEN [ret |-> None, data |-> upd]
    ELSE LET gate == ApplicableGate(upd[user_id].current_phase)
         IN [ret |-> GateDecision(upd[user_id], gate, ctx, t),
             data |-> [upd EXCEPT ![user_id] = DataAfterCheck(@, gate, ctx, t)]]

-----------------------------------------------------------------------------
(* UserPhaseData and the operations that write it *)

\* UserPhaseData(user_id, current_phase, phase_entry_time) with the field defaults
UserPhaseData(user_id, phase, entry_time) ==
    [user_id |-> user_id,
     current_phase |-> phase,
     phase_entry_time |-> entry_time,
     completed_conditions |-> {},
     phase_history |-> << >>,
     spiral_count |-> InitialSpiralCount,
     phase_resonance |-> BaselineResonance,
     breakthrough_moments |-> << >>]

\* user_phase_data[user_id] = data
PutUser(upd, user_id, data) ==
    [u \in DOMAIN upd \cup {user_id} |-> IF u = user_id THEN data ELSE upd[u]]

\* faulty variant of TransitionRecord: the record is built after current_phase is set
TransitionRecordAfterUpdate(data, new_phase, ritual_completed, t) ==
    [from_phase |-> new_phase,
     to_phase |-> new_phase,
     transition_time |-> t,
     spiral_count |-> data.spiral_count,
     ritual_completed |-> ritual_completed]

\* the transition_record of transition_phase
TransitionRecord(data, new_phase, ritual_completed, t) ==
    [from_phase |-> data.current_phase,
     to_phase |-> new_phase,
     transition_time |-> t,
     spiral_count |-> data.spiral_count,
     ritual_completed |-> ritual_completed]

\* faulty variant of SpiralCountAfter: every entry into the first phase counts
SpiralCountAfterAny(data, new_phase) ==
    IF new_phase = INITIATION THEN data.spiral_count + 1 ELSE data.spiral_count

\* "Handle spiral completion"
SpiralCountAfter(data, new_phase) ==
    IF data.current_phase = TRANSCENDENCE /\ new_phase = INITIATION
    THEN data.spiral_count + 1
    ELSE data.spiral_count

\* faulty variant of DataAfterTransition: completed_conditions is not emptied
DataAfterTransitionKeepConditions(data, new_phase, ritual_completed, t) ==
    [data EXCEPT
        !.phase_history = Append(@, TransitionRecord(data, new_phase, ritual_completed, t)),
        !.current_phase = new_phase,
        !.phase_entry_time = t,
        !.phase_resonance = BaselineResonance,
        !.spiral_count = SpiralCountAfter(data, new_phase)]

\* faulty variant of DataAfterTransition: phase_resonance is not reset
DataAfterTransitionKeepResonance(data, new_phase, ritual_completed, t) ==
    [data EXCEPT
        !.phase_history = Append(@, TransitionRecord(data, new_phase, ritual_completed, t)),
        !.current_phase = new_phase,
        !.phase_entry_time = t,
        !.completed_conditions = {},
        !.spiral_count =
            IF data.current_phase = TRANSCENDENCE /\ new_phase = INITIATION
            THEN data.spiral_count + 1 ELSE data.spiral_count]

\* the stored user's record after transition_phase
DataAfterTransition(data, new_phase, ritual_completed, t) ==
    [data EXCEPT
        !.phase_history = Append(@, TransitionRecord(data, new_phase, ritual_completed, t)),
        !.current_phase = new_phase,
        !.phase_entry_time = t,
        !.completed_conditions = {},
        !.phase_resonance = BaselineResonance,
        !.spiral_count = SpiralCountAfter(data, new_phase)]

\* faulty variant of TransitionPhase: every stored user is moved
TransitionPhaseEveryone(upd, user_id, new_phase, ritual_completed, t) ==
    IF user_id \notin DOMAIN upd THEN upd
    ELSE [u \in DOMAIN upd |-> DataAfterTransition(upd[u], new_phase, ritual_completed, t)]

\* transition_phase(user_id, new_phase, ritual_completed): user_phase_data after
TransitionPhase(upd, user_id, new_phase, ritual_completed, t) ==
    IF user_id \notin DOMAIN upd THEN upd
    ELSE [upd EXCEPT ![user_id] = DataAfterTransition(@, new_phase, ritual_completed, t)]

\* faulty variant of DataAfterBreakthrough: the sum is not clamped
DataAfterBreakthroughUnclamped(data, breakthrough_data, t) ==
    [data EXCEPT
        !.breakthrough_moments =
            Append(@, [timestamp |-> t, phase |-> data.current_phase,
                       data |-> breakthrough_data]),
        !.phase_resonance = @ + BreakthroughIncrement]

\* the stored user's record after record_breakthrough
DataAfterBreakthrough(data, breakthrough_data, t) ==
    [data EXCEPT
        !.breakthrough_moments =
            Append(@, [timestamp |-> t, phase |-> data.current_phase,
                       data |-> breakthrough_data]),
        !.phase_resonance = Min(MaxResonance, @ + BreakthroughIncrement)]

\* record_breakthrough(user_id, breakthrough_data): user_phase_data after
RecordBreakthrough(upd, user_id, breakthrough_data, t) ==
    IF user_id \notin DOMAIN upd THEN upd
    ELSE [upd EXCEPT ![user_id] = DataAfterBreakthrough(@, breakthrough_data, t)]

-----------------------------------------------------------------------------
(* get_phase_guidance: the static tables of phase behaviours and archetypes *)

FIRE == "fire"
WATER == "water"
EARTH == "earth"
AIR == "air"
AETHER == "aether"

\* the Element enumeration, in definition order
Element == <<FIRE, WATER, EARTH, AIR, AETHER>>

Affinities(fire, water, earth, air, aether) ==
    [e \in {FIRE, WATER, EARTH, AIR, AETHER} |->
        CASE e = FIRE -> fire [] e = WATER -> water [] e = EARTH -> earth
          [] e = AIR -> air [] OTHER -> aether]

Behavior(energy, focus, challenges, gifts, practices, affinities) ==
    [energy |-> energy, focus |-> focus, challenges |-> challenges, gifts |-> gifts,
     practices |-> practices, element_affinities |-> affinities]

phase_behaviors ==
    [p \in SpiralPhase |->
      CASE p = INITIATION ->
             Behavior("awakening", "vision_clarification",
                      <<"confusion", "overwhelm", "doubt">>,
                      <<"fresh_perspective", "beginner_mind", "enthusiasm">>,
                      <<"meditation", "journaling", "vision_boarding">>,
                      Affinities(8, 5, 4, 7, 6))
        [] p = EXPLORATION ->
             Behavior("expansion", "experimentation",
                      <<"distraction", "overwhelm", "impatience">>,
                      <<"curiosity", "playfulness", "discovery">>,
                      <<"trying_new_things", "travel", "learning">>,
                      Affinities(7, 6, 4, 9, 5))
        [] p = CHALLENGE ->
             Behavior("friction", "perseverance",
                      <<"resistance", "fear", "old_patterns">>,
                      <<"strength", "clarity", "determination">>,
                      <<"shadow_work", "therapy", "physical_training">>,
                      Affinities(7, 6, 8, 4, 5))
        [] p = TRANSFORMATION ->
             Behavior("metamorphosis", "surrender",
                      <<"death_of_old_self", "uncertainty", "void">>,
                      <<"rebirth", "authenticity", "power">>,
                      <<"ritual", "fasting", "vision_quest">>,
                      Affinities(9, 8, 4, 5, 7))
        [] p = INTEGRATION ->
             Behavior("synthesis", "embodiment",
                      <<"patience", "practice", "consistency">>,
                      <<"wisdom", "balance", "groundedness">>,
                      <<"daily_rituals", "teaching", "creating">>,
                      Affinities(5, 7, 9, 6, 6))
        [] p = MASTERY ->
             Behavior("flow", "service",
                      <<"humility", "continued_growth", "teaching">>,
                      <<"effortless_action", "wisdom", "magnetism">>,
                      <<"mentoring", "advanced_practices", "innovation">>,
                      Affinities(7, 7, 7, 7, 8))
        [] OTHER ->
             Behavior("unity", "being",
                      <<"staying_grounded", "communication", "loneliness">>,
                      <<"unity_consciousness", "peace", "presence">>,
                      <<"meditation", "service", "presence">>,
                      Affinities(6, 6, 5, 6, 10))]

phase_archetypes ==
    [p \in SpiralPhase |->
      CASE p = INITIATION -> <<"Innocent", "Seeker", "Fool", "Wonderer">>
        [] p = EXPLORATION -> <<"Explorer", "Student", "Adventurer", "Wanderer">>
        [] p = CHALLENGE -> <<"Warrior", "Challenger", "Shadow-Facer", "Tested One">>
        [] p = TRANSFORMATION -> <<"Phoenix", "Shapeshifter", "Death-Walker", "Alchemist">>
        [] p = INTEGRATION -> <<"Bridge-Builder", "Weaver", "Integrator", "Embodier">>
        [] p = MASTERY -> <<"Master", "Teacher", "Guide", "Sage">>
        [] OTHER -> <<"Mystic", "Oracle", "Void-Walker", "Unity-Keeper">>]

\* get_phase_guidance(phase)
GetPhaseGuidance(phase) ==
    [phase |-> phase,
     energy |-> phase_behaviors[phase].energy,
     focus |-> phase_behaviors[phase].focus,
     current_challenges |-> phase_behaviors[phase].challenges,
     available_gifts |-> phase_behaviors[phase].gifts,
     recommended_practices |-> phase_behaviors[phase].practices,
     active_archetypes |-> phase_archetypes[phase],
     element_affinities |-> phase_behaviors[phase].element_affinities]

-----------------------------------------------------------------------------
(* Text.  A text is one of the literals below; what the code asks of a text (its   *)
(* length, the keywords that occur in its lower-cased form, its slices, its        *)
(* sentences) is tabulated for each literal.                                       *)

InputChange == "i want to change my life"
InputHello == "hello oracle"
InputResolved == "i feel happy and resolved to grow"
InputLong == "i am afraid of change but i hope my purpose becomes clear"
InputLongCut == "i am afraid of change but i hope my purpose become"
MessageTrust == "Trust the fire within. You are becoming."
MessageWelcome == "Welcome."
ImagePhoenix == "A phoenix rising from fire"

\* len(text)
Length(text) ==
    CASE text = InputChange -> 24 [] text = InputHello -> 12
      [] text = InputResolved -> 33 [] text = InputLong -> 57
      [] text = InputLongCut -> 50 [] text = MessageTrust -> 40
      [] text = MessageWelcome -> 8 [] text = ImagePhoenix -> 26
      [] text = "Trust the fire within" -> 21 [] text = " You are becoming" -> 17
      [] text = "Welcome" -> 7
      [] OTHER -> 0

\* the keywords of the code's word lists that are substrings of text.lower()
Keywords(text) ==
    CASE text = InputChange -> {"change", "want"}
      [] text = InputResolved -> {"happy", "grow", "resolved"}
      [] text = InputLong -> {"change", "purpose", "but", "hope", "afraid", "become"}
      [] text = InputLongCut -> {"change", "purpose", "but", "hope", "afraid", "become"}
      [] text = MessageTrust -> {"fire", "you are", "trust"}
      [] text = ImagePhoenix -> {"fire", "phoenix"}
      [] text = "Trust the fire within" -> {"fire", "trust"}
      [] text = " You are becoming" -> {"you are"}
      [] OTHER -> {}

\* keyword in text.lower()
Contains(text, keyword) == keyword \in Keywords(text)

\* text[:n]
Slice(text, n) ==
    IF Length(text) <= n THEN text
    ELSE IF text = InputLong /\ n = 50 THEN InputLongCut
    ELSE text

\* re.split(r'[.!?]', text)
Sentences(text) ==
    CASE text = MessageTrust -> <<"Trust the fire within", " You are becoming", "">>
      [] text = MessageWelcome -> <<"Welcome", "">>
      [] OTHER -> <<text>>

\* sentence.strip()
Strip(text) == IF text = " You are becoming" THEN "You are becoming" ELSE text

\* archetype.lower()
Lower(text) == IF text = "Phoenix" THEN "phoenix" ELSE text

\* a text or None that is truthy
Truthy(text) == text # None /\ text # ""

\* seq[:n]
Take(seq, n) == SubSeq(seq, 1, Min(n, Len(seq)))

\* seq[-n:]
LastN(seq, n) == IF Len(seq) > n THEN SubSeq(seq, Len(seq) - n + 1, Len(seq)) ELSE seq

\* an exact fraction num/den for a float
Ratio(num, den) == [num |-> num, den |-> den]

\* a < b for fractions with positive denominators
Less(a, b) == a.num * b.den < b.num * a.den

-----------------------------------------------------------------------------
(* Dictionaries that are read in insertion order: sequences of [k, v] *)

DictIndex(d, k) ==
    LET hits == {i \in DOMAIN d : d[i].k = k}
    IN IF hits = {} THEN 0 ELSE CHOOSE i \in hits : TRUE

\* d[k] = d.get(k, 0) + 1
DictInc(d, k) ==
    IF DictIndex(d, k) = 0 THEN Append(d, [k |-> k, v |-> 1])
    ELSE [d EXCEPT ![DictIndex(d, k)].v = @ + 1]

\* max(d, key=d.get): the first key with the greatest value
DictArgMax(d) ==
    d[CHOOSE i \in DOMAIN d :
         /\ \A j \in DOMAIN d : d[j].v <= d[i].v
         /\ \A j \in DOMAIN d : d[j].v = d[i].v => i <= j].k

\* mapping.get(user_id, default)
Lookup(mapping, user_id, default) ==
    IF user_id \in DOMAIN mapping THEN mapping[user_id] ELSE default

\* mapping[key] = value
Put(mapping, key, value) ==
    [x \in DOMAIN mapping \cup {key} |-> IF x = key THEN value ELSE mapping[x]]

EmptyMap == [x \in {} |-> 0]

-----------------------------------------------------------------------------
(* AINMemoryBridge: store_oracle_interaction and what it calls *)

RecentWindow == 10

ContextSliceLength == 100

TensionSliceLength == 50

GuidanceDepth == 10

TrendCap == 100

PatternCap == 1000

DefaultIntegration == 7

positive_words == {"happy", "excited", "grateful", "love", "peace", "joy"}

negative_words == {"sad", "angry", "frustrated", "scared", "worried", "stuck"}

\* _assess_emotional_valence
AssessEmotionalValence(text) ==
    LET positive_count == Cardinality({w \in positive_words : Contains(text, w)})
        negative_count == Cardinality({w \in negative_words : Contains(text, w)})
    IN IF positive_count + negative_count = 0 THEN Ratio(0, 1)
       ELSE Ratio(positive_count - negative_count, positive_count + negative_count)

instructive_words == {"you are", "remember", "trust", "become", "let"}

IsKeyPhrase(sentence) ==
    /\ Length(sentence) > 20 /\ Length(sentence) < 100
    /\ \E w \in instructive_words : Contains(sentence, w)

StripAt(seq) == [i \in DOMAIN seq |-> Strip(seq[i])]

\* _extract_key_phrases
ExtractKeyPhrases(text) == Take(StripAt(SelectSeq(Sentences(text), IsKeyPhrase)), 5)

\* _extract_insights
ExtractInsights(response) ==
    (IF Truthy(response.archetype)
     THEN <<[label |-> "Archetype", text |-> response.archetype]>> ELSE << >>)
    \o (IF Truthy(response.reflection_prompt)
        THEN <<[label |-> "Reflection", text |-> response.reflection_prompt]>> ELSE << >>)
    \o [i \in DOMAIN Take(ExtractKeyPhrases(response.message), 3) |->
           [label |-> "phrase", text |-> ExtractKeyPhrases(response.message)[i]]]

symbol_keywords ==
    <<"fire", "water", "earth", "air", "void", "light", "shadow", "tree", "mountain",
      "ocean", "sky", "crystal", "mirror", "phoenix", "dragon", "eagle", "serpent",
      "lotus", "seed">>

\* _extract_symbols_from_image
ExtractSymbolsFromImage(symbolic_image) ==
    LET Found(symbol) == Contains(symbolic_image, symbol)
    IN SelectSeq(symbol_keywords, Found)

\* crystal_resonance or 0.7 (None is Absent)
ResonanceOrDefault(crystal_resonance) ==
    IF crystal_resonance = Absent \/ crystal_resonance = 0 THEN DefaultIntegration
    ELSE crystal_resonance

\* the AINMemoryPayload store_oracle_interaction creates
MemoryPayload(user_id, response, user_input, t) ==
    [user_id |-> user_id,
     timestamp |-> t,
     memory_type |-> "oracle_interaction",
     content |-> [user_input |-> user_input,
                  oracle_message |-> response.message,
                  archetype_invoked |-> response.archetype,
                  ritual_offered |-> response.ritual,
                  reflection_prompt |-> response.reflection_prompt,
                  symbolic_image |-> response.symbolic_image],
     elemental_tags |-> <<response.element>>,
     phase_context |-> response.phase,
     emotional_valence |-> AssessEmotionalValence(user_input),
     integration_level |-> ResonanceOrDefault(response.crystal_resonance),
     oracle_insights |-> ExtractInsights(response),
     collective_resonance |-> None]

\* SymbolicThread(symbol, first_appearance) with the field defaults
SymbolicThread(symbol, t) ==
    [symbol |-> symbol,
     first_appearance |-> t,
     appearances |-> << >>,
     elemental_associations |-> << >>,
     phase_associations |-> << >>,
     transformation_trajectory |-> << >>,
     current_meaning |-> [kind |-> "", symbol |-> "", ref |-> ""],
     archetypal_resonance |-> 0]

\* _interpret_symbol_evolution: the formatted meaning, as its parts
InterpretSymbolEvolution(thread) ==
    IF Len(thread.appearances) < 2
    THEN [kind |-> "Emerging symbol", symbol |-> thread.symbol, ref |-> ""]
    ELSE IF Len(thread.phase_associations) > 1
    THEN [kind |-> "evolving through", symbol |-> thread.symbol,
          ref |-> thread.phase_associations[Len(thread.phase_associations)].k]
    ELSE [kind |-> "resonating with", symbol |-> thread.symbol,
          ref |-> DictArgMax(thread.elemental_associations)]

\* faulty variant of ThreadAfterSymbol: the thread is created on every mention
ThreadAfterSymbolFresh(threads, symbol, response, phase, t) ==
    LET thread == SymbolicThread(symbol, t)
        appended ==
            [thread EXCEPT
                !.appearances =
                    Append(@, [timestamp |-> t,
                               context |-> Slice(response.message, ContextSliceLength),
                               phase |-> phase,
                               element |-> response.element]),
                !.elemental_associations = DictInc(@, response.element),
                !.phase_associations = DictInc(@, phase)]
    IN [appended EXCEPT
           !.current_meaning = InterpretSymbolEvolution(appended),
           !.archetypal_resonance = ResonanceOrDefault(response.crystal_resonance)]

\* one pass of the loop over the symbols of _update_symbolic_threads
ThreadAfterSymbol(threads, symbol, response, phase, t) ==
    LET thread == Lookup(threads, symbol, SymbolicThread(symbol, t))
        appended ==
            [thread EXCEPT
                !.appearances =
                    Append(@, [timestamp |-> t,
                               context |-> Slice(response.message, ContextSliceLength),
                               phase |-> phase,
                               element |-> response.element]),
                !.elemental_associations = DictInc(@, response.element),
                !.phase_associations = DictInc(@, phase)]
    IN [appended EXCEPT
           !.current_meaning = InterpretSymbolEvolution(appended),
           !.archetypal_resonance = ResonanceOrDefault(response.crystal_resonance)]

RECURSIVE ThreadsAfterSymbols(_, _, _, _, _)
ThreadsAfterSymbols(threads, symbols, response, phase, t) ==
    IF symbols = << >> THEN threads
    ELSE ThreadsAfterSymbols(
            Put(threads, Head(symbols),
                ThreadAfterSymbol(threads, Head(symbols), response, phase, t)),
            Tail(symbols), response, phase, t)

\* the symbols _update_symbolic_threads extracts from the response
ResponseSymbols(response) ==
    (IF Truthy(response.symbolic_image)
     THEN ExtractSymbolsFromImage(response.symbolic_image) ELSE << >>)
    \o (IF Truthy(response.archetype) THEN <<Lower(response.archetype)>> ELSE << >>)

\* _update_symbolic_threads(user_id, oracle_response, context): symbolic_threads after
UpdateSymbolicThreads(all_threads, user_id, response, phase, t) ==
    Put(all_threads, user_id,
        ThreadsAfterSymbols(Lookup(all_threads, user_id, EmptyMap),
                            ResponseSymbols(response), response, phase, t))

\* the theme_patterns of _extract_narrative_themes, in dictionary order
theme_patterns ==
    <<[theme |-> "transformation", keywords |-> {"change", "transform", "new", "different"}],
      [theme |-> "relationship", keywords |-> {"love", "connection", "partner", "relationship"}],
      [theme |-> "purpose", keywords |-> {"purpose", "meaning", "calling", "mission"}],
      [theme |-> "healing", keywords |-> {"heal", "pain", "trauma", "recovery"}],
      [theme |-> "growth", keywords |-> {"grow", "develop", "evolve", "expand"}],
      [theme |-> "creation", keywords |-> {"create", "build", "manifest", "birth"}]>>

\* _extract_narrative_themes
ExtractNarrativeThemes(user_input) ==
    LET Matches(pattern) == \E w \in pattern.keywords : Contains(user_input, w)
        hits == SelectSeq(theme_patterns, Matches)
    IN [i \in DOMAIN hits |-> hits[i].theme]

\* the tension_indicators of _identify_tension, in dictionary order
tension_indicators ==
    <<[type |-> "conflict", keywords |-> {"but", "however", "struggle", "fight"}],
      [type |-> "uncertainty", keywords |-> {"confused", "don't know", "unsure", "lost"}],
      [type |-> "desire", keywords |-> {"want", "need", "wish", "hope"}],
      [type |-> "fear", keywords |-> {"afraid", "scared", "worry", "anxious"}]>>

\* _identify_tension: "<type>: <user_input[:50]>...", as its parts
IdentifyTension(user_input) ==
    LET Matches(indicator) == \E w \in indicator.keywords : Contains(user_input, w)
        hits == SelectSeq(tension_indicators, Matches)
    IN [type |-> IF hits = << >> THEN "exploration" ELSE hits[1].type,
        text |-> Slice(user_input, TensionSliceLength)]

\* "resolved" in tension.lower(): no type holds the word, so it lies in the text
TensionResolved(tension) == Contains(tension.text, "resolved")

\* theme in arc.title.lower(): the titles are the theme names, none inside another
TitleMatches(theme, title) == theme = title

\* faulty variant of FindMatchingArc: a completed arc is matched as well
FindMatchingArcAny(arcs, theme) ==
    LET hits == {i \in DOMAIN arcs : TitleMatches(theme, arcs[i].title)}
    IN IF hits = {} THEN 0 ELSE CHOOSE i \in hits : \A j \in hits : i <= j

\* _find_matching_arc: the position of the first open arc of the theme, 0 when none
FindMatchingArc(arcs, theme) ==
    LET hits == {i \in DOMAIN arcs :
                    /\ TitleMatches(theme, arcs[i].title)
                    /\ Less(arcs[i].completion_percentage, Ratio(9, 10))}
    IN IF hits = {} THEN 0 ELSE CHOOSE i \in hits : \A j \in hits : i <= j

\* _determine_chapter
DetermineChapter(arc) ==
    IF Len(arc.key_events) <= 2 THEN "Beginning"
    ELSE IF Len(arc.key_events) <= 5 THEN "Rising Action"
    ELSE IF Len(arc.key_events) <= 8 THEN "Climax"
    ELSE IF Less(Ratio(8, 10), arc.completion_percentage) THEN "Resolution"
    ELSE "Falling Action"

\* faulty variant of CalculateArcCompletion: the guidance factor is not capped at 1.0
CalculateArcCompletionUncapped(arc) ==
    IF arc.active_tensions = << >> THEN Ratio(1, 1)
    ELSE LET initial_tensions == Len(arc.active_tensions)
             resolved_tensions ==
                 Cardinality({i \in DOMAIN arc.active_tensions :
                                 TensionResolved(arc.active_tensions[i])})
         IN Ratio(resolved_tensions * GuidanceDepth
                     + Len(arc.oracle_guidance) * initial_tensions,
                  2 * GuidanceDepth * initial_tensions)

\* _calculate_arc_completion: (resolved/initial + min(len(guidance)/10, 1.0)) / 2
CalculateArcCompletion(arc) ==
    IF arc.active_tensions = << >> THEN Ratio(1, 1)
    ELSE LET initial_tensions == Len(arc.active_tensions)
             resolved_tensions ==
                 Cardinality({i \in DOMAIN arc.active_tensions :
                                 TensionResolved(arc.active_tensions[i])})
             guidance == Min(Len(arc.oracle_guidance), GuidanceDepth)
         IN Ratio(resolved_tensions * GuidanceDepth + guidance * initial_tensions,
                  2 * GuidanceDepth * initial_tensions)

\* the key_events entry of an interaction
KeyEvent(response, user_input, t) ==
    [timestamp |-> t,
     event |-> Slice(user_input, ContextSliceLength),
     oracle_guidance |-> response.archetype,
     element |-> response.element]

\* faulty variant of ArcAfterEvent: the response is not added to oracle_guidance
ArcAfterEventUnguided(arc, response, user_input, t) ==
    LET grown == [arc EXCEPT !.key_events = Append(@, KeyEvent(response, user_input, t))]
        titled == [grown EXCEPT !.current_chapter = DetermineChapter(grown)]
    IN [titled EXCEPT !.completion_percentage = CalculateArcCompletion(titled)]

\* "Update existing arc"
ArcAfterEvent(arc, response, user_input, t) ==
    LET grown == [arc EXCEPT !.key_events = Append(@, KeyEvent(response, user_input, t)),
                             !.oracle_guidance = Append(@, response)]
        titled == [grown EXCEPT !.current_chapter = DetermineChapter(grown)]
    IN [titled EXCEPT !.completion_percentage = CalculateArcCompletion(titled)]

\* "Create new arc"
NewArc(user_id, theme, response, user_input, t) ==
    [arc_id |-> <<user_id, theme, t>>,
     title |-> theme,
     beginning |-> [timestamp |-> t,
                    trigger |-> Slice(user_input, ContextSliceLength),
                    initial_guidance |-> Slice(response.message, ContextSliceLength)],
     current_chapter |-> "Beginning",
     key_events |-> <<KeyEvent(response, user_input, t)>>,
     active_tensions |-> <<IdentifyTension(user_input)>>,
     potential_resolutions |-> << >>,
     oracle_guidance |-> <<response>>,
     completion_percentage |-> Ratio(0, 1)]

RECURSIVE ArcsAfterThemes(_, _, _, _, _, _)
ArcsAfterThemes(arcs, themes, user_id, response, user_input, t) ==
    IF themes = << >> THEN arcs
    ELSE LET i == FindMatchingArc(arcs, Head(themes))
             next == IF i # 0
                     THEN [arcs EXCEPT ![i] = ArcAfterEvent(@, response, user_input, t)]
                     ELSE Append(arcs, NewArc(user_id, Head(themes), response, user_input, t))
         IN ArcsAfterThemes(next, Tail(themes), user_id, response, user_input, t)

\* _update_narrative_arcs(user_id, oracle_response, user_input): narrative_arcs after
UpdateNarrativeArcs(all_arcs, user_id, response, user_input, t) ==
    Put(all_arcs, user_id,
        ArcsAfterThemes(Lookup(all_arcs, user_id, << >>),
                        ExtractNarrativeThemes(user_input),
                        user_id, response, user_input, t))

\* CollectivePatternTracker.__init__
CollectivePatternTracker ==
    [patterns |-> << >>,
     archetypal_frequencies |-> << >>,
     elemental_trends |-> [e \in {FIRE, WATER, EARTH, AIR, AETHER} |-> << >>]]

\* "archetype" in pattern_data and the like: pattern_data is a mapping
Has(pattern_data, key) == key \in DOMAIN pattern_data

\* faulty variant of AddPattern: a full log keeps its oldest entries
AddPatternKeepOldest(tracker, pattern_data, t) ==
    LET counted ==
            IF Has(pattern_data, "archetype")
            THEN [tracker EXCEPT
                     !.archetypal_frequencies = DictInc(@, pattern_data["archetype"])]
            ELSE tracker
        tracked ==
            IF Has(pattern_data, "element") /\ Has(pattern_data, "resonance")
            THEN [counted EXCEPT
                     !.elemental_trends[pattern_data["element"]] =
                         Take(Append(@, pattern_data["resonance"]), TrendCap)]
            ELSE counted
    IN [tracked EXCEPT
           !.patterns = Take(Append(@, [timestamp |-> <<"isoformat", t>>,
                                        data |-> pattern_data]), PatternCap)]

\* CollectivePatternTracker.add_pattern
AddPattern(tracker, pattern_data, t) ==
    LET counted ==
            IF Has(pattern_data, "archetype")
            THEN [tracker EXCEPT
                     !.archetypal_frequencies = DictInc(@, pattern_data["archetype"])]
            ELSE tracker
        tracked ==
            IF Has(pattern_data, "element") /\ Has(pattern_data, "resonance")
            THEN [counted EXCEPT
                     !.elemental_trends[pattern_data["element"]] =
                         LastN(Append(@, pattern_data["resonance"]), TrendCap)]
            ELSE counted
    IN [tracked EXCEPT
           !.patterns = LastN(Append(@, [timestamp |-> <<"isoformat", t>>,
                                         data |-> pattern_data]), PatternCap)]

\* a mapping or None that is truthy
TruthyData(pattern_data) == DOMAIN pattern_data # {}

\* store_oracle_interaction: the four stores after the call, and the payload returned
StoreOracleInteraction(store, threads, arcs, tracker, user_id, response, user_input, context, t) ==
    [memory_store |->
         Put(store, user_id,
             Append(Lookup(store, user_id, << >>),
                    MemoryPayload(user_id, response, user_input, t))),
     symbolic_threads |->
         UpdateSymbolicThreads(threads, user_id, response, context.current_phase, t),
     narrative_arcs |-> UpdateNarrativeArcs(arcs, user_id, response, user_input, t),
     collective_patterns |->
         IF TruthyData(response.collective_field_data)
         THEN AddPattern(tracker, response.collective_field_data, t)
         ELSE tracker,
     ret |-> MemoryPayload(user_id, response, user_input, t)]

-----------------------------------------------------------------------------
(* AINMemoryBridge: retrieve_user_context and what it calls *)

MinimumMemories == 5

ReadyMentions == 3

EvolvingAppearances == 3

EvolvingSymbols == 2

PhaseDurationPlaceholder == 7

RECURSIVE Flatten(_)
Flatten(seqs) == IF seqs = << >> THEN << >> ELSE Head(seqs) \o Flatten(Tail(seqs))

\* the recent_symbols loop of retrieve_user_context
RecentSymbols(recent_memories) ==
    Flatten([i \in DOMAIN recent_memories |->
                IF Truthy(recent_memories[i].content.symbolic_image)
                THEN ExtractSymbolsFromImage(recent_memories[i].content.symbolic_image)
                ELSE << >>])

\* the active_narratives loop of retrieve_user_context
ActiveNarratives(user_arcs) ==
    LET Open(arc) == Less(arc.completion_percentage, Ratio(9, 10))
        open == SelectSeq(user_arcs, Open)
    IN [i \in DOMAIN open |->
           [title |-> open[i].title,
            current_chapter |-> open[i].current_chapter,
            tensions |-> open[i].active_tensions]]

\* the positions of all elemental_tags of the memories
Tags(memories) ==
    UNION {{<<i, j>> : j \in DOMAIN memories[i].elemental_tags} : i \in DOMAIN memories}

\* element_counts[element]
TagCount(memories, element) ==
    Cardinality({p \in Tags(memories) : memories[p[1]].elemental_tags[p[2]] = element})

\* _calculate_elemental_balance
CalculateElementalBalance(memories) ==
    LET total == IF Cardinality(Tags(memories)) = 0 THEN 1
                 ELSE Cardinality(Tags(memories))
    IN [e \in {FIRE, WATER, EARTH, AIR, AETHER} |-> Ratio(TagCount(memories, e), total)]

RECURSIVE SumIntegration(_)
SumIntegration(memories) ==
    IF memories = << >> THEN 0
    ELSE Head(memories).integration_level + SumIntegration(Tail(memories))

\* _calculate_integration_average
CalculateIntegrationAverage(memories) ==
    IF memories = << >> THEN Ratio(0, 1)
    ELSE Ratio(SumIntegration(memories), Len(memories))

transformation_words == {"change", "transform", "ready", "new", "release", "let go"}

\* _check_symbol_evolution
CheckSymbolEvolution(threads, user_id) ==
    LET user_threads == Lookup(threads, user_id, EmptyMap)
        evolving == {s \in DOMAIN user_threads :
                        /\ Len(user_threads[s].appearances) > EvolvingAppearances
                        /\ Len(user_threads[s].phase_associations) > 1}
    IN Cardinality(evolving) >= EvolvingSymbols

\* _get_phase_duration
GetPhaseDuration(user_id) == PhaseDurationPlaceholder

\* _assess_transformation_readiness
AssessTransformationReadiness(store, threads, user_id) ==
    LET memories == Lookup(store, user_id, << >>)
        recent_memories == LastN(memories, RecentWindow)
        avg_integration == CalculateIntegrationAverage(recent_memories)
        transformation_mentions ==
            Cardinality({i \in DOMAIN recent_memories :
                            \E w \in transformation_words :
                                Contains(recent_memories[i].content.user_input, w)})
    IN IF Len(memories) < MinimumMemories
       THEN [ready |-> FALSE, indicators |-> << >>]
       ELSE [ready |-> /\ Less(Ratio(75, 10), avg_integration)
                       /\ transformation_mentions >= ReadyMentions,
             indicators |-> [integration_level |-> avg_integration,
                             transformation_mentions |-> transformation_mentions,
                             symbol_evolution |-> CheckSymbolEvolution(threads, user_id),
                             phase_duration |-> GetPhaseDuration(user_id)]]

\* retrieve_user_context: the mapping it returns; it writes nothing
RetrieveUserContext(store, threads, arcs, user_id) ==
    LET memories == Lookup(store, user_id, << >>)
        recent_memories == LastN(memories, RecentWindow)
    IN [recent_symbols |-> RecentSymbols(recent_memories),
        active_narratives |-> ActiveNarratives(Lookup(arcs, user_id, << >>)),
        elemental_balance |-> CalculateElementalBalance(recent_memories),
        transformation_indicators |-> AssessTransformationReadiness(store, threads, user_id),
        memory_depth |-> Len(memories),
        integration_average |-> CalculateIntegrationAverage(recent_memories)]

-----------------------------------------------------------------------------
(* The last call and what it returned *)

\* op(user, arg) returned ret
Call(op, user, arg, ret) == [op |-> op, user |-> user, arg |-> arg, ret |-> ret]

\* op(user, arg) of the memory bridge or the guidance tables returned the mapping out
Returned(op, user, arg, out) == [op |-> op, user |-> user, arg |-> arg, out |-> out]

NoCall == Call("init", None, EmptyContext, None)

\* no call is in flight
NoFrames == << >>

-----------------------------------------------------------------------------
(* Inputs *)

\* values on both sides of a condition's threshold
SignalValues(c) ==
    IF c.cmp = "gt" THEN {c.threshold, c.threshold + 1}
                    ELSE {c.threshold - 1, c.threshold}

SignalChoices(gate, i) ==
    IF i \in DOMAIN gate.conditions
    THEN SignalValues(gate.conditions[i]) \cup {Absent}
    ELSE {Absent}

\* collective_resonance below, at and above the gate's threshold, or missing
ResonanceChoices(gate) ==
    {Absent, gate.collective_resonance_threshold - 1,
     gate.collective_resonance_threshold, MaxResonance}

\* the context holding the chosen signals of the gate's conditions
MakeContext(gate, v, r) ==
    LET present == {i \in DOMAIN gate.conditions : v[i] # Absent}
        keys == {gate.conditions[i].key : i \in present}
                  \cup (IF r # Absent THEN {"collective_resonance"} ELSE {})
    IN [k \in keys |->
           IF k = "collective_resonance" THEN r
           ELSE LET i == CHOOSE j \in present : gate.conditions[j].key = k
                IN v[i]]

\* the two contexts of the specification's end-to-end scenarios
ScenarioReady ==
    [k \in {"vision_clarity", "actions_taken", "commitment_level"} |->
        IF k = "vision_clarity" THEN 8 ELSE IF k = "actions_taken" THEN 10 ELSE 7]

ScenarioUnclear ==
    [k \in {"vision_clarity", "actions_taken", "commitment_level"} |->
        IF k = "vision_clarity" THEN 5 ELSE IF k = "actions_taken" THEN 10 ELSE 7]

ScenarioContexts == {ScenarioReady, ScenarioUnclear, EmptyContext}

GateContexts(gate) ==
    {MakeContext(gate, <<a, b, c>>, r) :
        a \in SignalChoices(gate, 1), b \in SignalChoices(gate, 2),
        c \in SignalChoices(gate, 3), r \in ResonanceChoices(gate)}

\* the contexts a user is evaluated on in SpecEval: those of the gate leaving the
\* user's phase (of the first gate for a user without data) and the scenarios
Contexts(upd, u) ==
    ScenarioContexts \cup
    GateContexts(IF u \in DOMAIN upd /\ HasGate(upd[u].current_phase)
                 THEN ApplicableGate(upd[u].current_phase)
                 ELSE phase_gates[1])

\* how long ago a user's phase_entry_time lies when the record is stored
EntryAges(phase) ==
    LET d == ApplicableGate(phase).minimum_duration IN {0, d - 1, d}

-----------------------------------------------------------------------------
(* Actions *)

RECURSIVE SumOver(_, _, _)
SumOver(S, upd, field) ==
    IF S = {} THEN 0
    ELSE LET u == CHOOSE x \in S : TRUE
         IN Len(upd[u][field]) + SumOver(S \ {u}, upd, field)

\* the number of transition records, and of breakthroughs, stored for all users
TotalHistory(upd) == SumOver(DOMAIN upd, upd, "phase_history")

TotalBreakthroughs(upd) == SumOver(DOMAIN upd, upd, "breakthrough_moments")

TypeOK ==
    /\ now \in 0..(MaxTime + 1)
    /\ DOMAIN user_phase_data \subseteq Users
    /\ last.op \in {"init", "store", "tick", "check", "transition", "breakthrough",
                  "guidance", "interaction", "retrieve", "arc", "completion",
                  "pattern"}
    /\ DOMAIN memory_store \subseteq Users
    /\ DOMAIN symbolic_threads = DOMAIN memory_store
    /\ DOMAIN narrative_arcs = DOMAIN memory_store

Init ==
    /\ now = 0
    /\ user_phase_data = [u \in {} |-> 0]
    /\ last = NoCall
    /\ memory_store = EmptyMap
    /\ symbolic_threads = EmptyMap
    /\ narrative_arcs = EmptyMap
    /\ collective_patterns = CollectivePatternTracker
    /\ frames = NoFrames

\* datetime.now() moves on
Tick ==
    /\ now < MaxTime
    /\ now' = now + 1
    /\ last' = Call("tick", None, EmptyContext, None)
    /\ UNCHANGED <<user_phase_data, bridge_vars, frames>>

\* a caller stores UserPhaseData for a user in user_phase_data
StoreUserData(u, phase, age) ==
    /\ u \notin DOMAIN user_phase_data
    /\ user_phase_data' = PutUser(user_phase_data, u, UserPhaseData(u, phase, now - age))
    /\ last' = Call("store", u, phase, None)
    /\ UNCHANGED <<now, bridge_vars, frames>>

Evaluate(u, ctx) ==
    LET r == CheckPhaseTransition(user_phase_data, u, ctx, now)
    IN /\ user_phase_data' = r.data
       /\ last' = Call("check", u, ctx, r.ret)
       /\ UNCHANGED <<now, bridge_vars, frames>>

Transition(u, new_phase, ritual_completed) ==
    /\ u \in DOMAIN user_phase_data => TotalHistory(user_phase_data) < MaxHistory
    /\ user_phase_data' = TransitionPhase(user_phase_data, u, new_phase, ritual_completed, now)
    /\ last' = Call("transition", u,
                  [new_phase |-> new_phase, ritual_completed |-> ritual_completed], None)
    /\ UNCHANGED <<now, bridge_vars, frames>>

Breakthrough(u, breakthrough_data) ==
    /\ u \in DOMAIN user_phase_data =>
          TotalBreakthroughs(user_phase_data) < MaxBreakthroughs
    /\ user_phase_data' = RecordBreakthrough(user_phase_data, u, breakthrough_data, now)
    /\ last' = Call("breakthrough", u, breakthrough_data, None)
    /\ UNCHANGED <<now, bridge_vars, frames>>

\* evaluation of one user over all contexts and dwell times
NextEval ==
    \/ Tick
    \/ \E u \in EvalUsers, p \in SpiralPhase : \E age \in EntryAges(p) : StoreUserData(u, p, age)
    \/ \E u \in EvalUsers : \E ctx \in Contexts(user_phase_data, u) : Evaluate(u, ctx)

SpecEval == Init /\ [][NextEval]_vars

\* ScenarioReady with a full collective-resonance signal
ScenarioResonant ==
    [k \in DOMAIN ScenarioReady \cup {"collective_resonance"} |->
        IF k = "collective_resonance" THEN MaxResonance ELSE ScenarioReady[k]]

LifeContexts == {EmptyContext, ScenarioReady, ScenarioResonant}

LifeAges == {3}

LifePhases == {INITIATION, TRANSCENDENCE}

BreakthroughData == {"insight"}

\* the phases a user is moved to: the one its gate leads to, as evaluate would
\* return it, and a forced move back to the first phase
TransitionTargets(upd, u) ==
    {INITIATION} \cup
    (IF u \in DOMAIN upd /\ HasGate(upd[u].current_phase)
     THEN {ApplicableGate(upd[u].current_phase).to_phase}
     ELSE {EXPLORATION})

\* the life cycle of two users
Next ==
    \/ Tick
    \/ \E u \in Users, p \in LifePhases, age \in LifeAges : StoreUserData(u, p, age)
    \/ \E u \in Users, ctx \in LifeContexts : Evaluate(u, ctx)
    \/ \E u \in Users, r \in BOOLEAN :
          \E p \in TransitionTargets(user_phase_data, u) : Transition(u, p, r)
    \/ \E u \in Users, d \in BreakthroughData : Breakthrough(u, d)

Spec == Init /\ [][Next]_vars

-----------------------------------------------------------------------------
(* The memory bridge beside the phase gates *)

\* OracleResponse with the defaults of the fields left out: a ritual, an archetype,
\* an image or a prompt left out is None, a resonance left out Absent, and
\* collective_field_data left out the empty mapping
OracleResponse(element, phase, message, archetype, symbolic_image, crystal_resonance, collective_field_data) ==
    [element |-> element, phase |-> phase, message |-> message, ritual |-> None,
     archetype |-> archetype, symbolic_image |-> symbolic_image,
     reflection_prompt |-> None, crystal_resonance |-> crystal_resonance,
     collective_field_data |-> collective_field_data]

\* the fields of UserContext the bridge reads
UserContext(current_phase) == [current_phase |-> current_phase]

ResponsePhoenix ==
    OracleResponse(FIRE, INITIATION, MessageTrust, "Phoenix", ImagePhoenix, 9,
                   [k \in {"archetype", "element", "resonance"} |->
                       IF k = "archetype" THEN "Phoenix"
                       ELSE IF k = "element" THEN FIRE ELSE 9])

ResponsePlain ==
    OracleResponse(WATER, EXPLORATION, MessageWelcome, None, None, Absent, EmptyContext)

Interactions ==
    {[response |-> ResponsePhoenix, user_input |-> InputChange,
      context |-> UserContext(INITIATION)],
     [response |-> ResponsePlain, user_input |-> InputHello,
      context |-> UserContext(EXPLORATION)]}

RECURSIVE TotalMemories(_)
TotalMemories(store) ==
    IF DOMAIN store = {} THEN 0
    ELSE LET u == CHOOSE x \in DOMAIN store : TRUE
         IN Len(store[u]) + TotalMemories([x \in DOMAIN store \ {u} |-> store[x]])

Guidance(phase) ==
    /\ last' = Returned("guidance", None, phase, GetPhaseGuidance(phase))
    /\ UNCHANGED <<now, user_phase_data, bridge_vars, frames>>

Interaction(u, i) ==
    LET r == StoreOracleInteraction(memory_store, symbolic_threads, narrative_arcs,
                                    collective_patterns, u, i.response, i.user_input,
                                    i.context, now)
    IN /\ TotalMemories(memory_store) < MaxMemories
       /\ memory_store' = r.memory_store
       /\ symbolic_threads' = r.symbolic_threads
       /\ narrative_arcs' = r.narrative_arcs
       /\ collective_patterns' = r.collective_patterns
       /\ last' = Returned("interaction", u, i, r.ret)
       /\ UNCHANGED <<now, user_phase_data, frames>>

Retrieve(u) ==
    /\ last' = Returned("retrieve", u, EmptyContext,
                      RetrieveUserContext(memory_store, symbolic_threads, narrative_arcs, u))
    /\ UNCHANGED <<now, user_phase_data, bridge_vars, frames>>

BridgeAges == {0, 3}

BridgePhases == {INITIATION}

BridgeContexts == {EmptyContext, ScenarioReady}

\* two users whose interactions are stored while their phase gate is evaluated
NextBridge ==
    \/ Tick
    \/ \E u \in Users, p \in BridgePhases, age \in BridgeAges : StoreUserData(u, p, age)
    \/ \E u \in Users, ctx \in BridgeContexts : Evaluate(u, ctx)
    \/ \E p \in SpiralPhase : Guidance(p)
    \/ \E u \in Users, i \in Interactions : Interaction(u, i)
    \/ \E u \in Users : Retrieve(u)

SpecBridge == Init /\ [][NextBridge]_vars

-----------------------------------------------------------------------------
(* Properties of check_phase_transition, checked under SpecEval *)

\* the last call was check_phase_transition for a user with stored data
Checked == last.op = "check" /\ last.user \in DOMAIN user_phase_data

LastData == user_phase_data[last.user]

LastGate == ApplicableGate(LastData.current_phase)

TimeInPhase == now - LastData.phase_entry_time

\* the condition's predicate as the gate table states it, read off the context
SignalHolds(c, ctx) ==
    LET v == IF c.key \in DOMAIN ctx THEN ctx[c.key] ELSE 0
    IN (c.cmp = "gt" /\ v > c.threshold) \/ (c.cmp = "ge" /\ v >= c.threshold)

Satisfied(gate, ctx) ==
    {i \in DOMAIN gate.conditions : SignalHolds(gate.conditions[i], ctx)}

RequiredUnmet(gate, ctx) ==
    \E i \in DOMAIN gate.conditions :
        gate.conditions[i].required /\ i \notin Satisfied(gate, ctx)

AllSatisfied(gate, ctx) == Satisfied(gate, ctx) = DOMAIN gate.conditions

FullResonance(ctx) ==
    "collective_resonance" \in DOMAIN ctx /\ ctx["collective_resonance"] = MaxResonance

\* C1: a user in Initiation for at least 3 days, evaluated on exactly
\* {vision_clarity: 0.8, actions_taken: 1, commitment_level: 0.7}, is returned Exploration.
C1_ScenarioReturnsExploration ==
    (Checked /\ LastData.current_phase = INITIATION /\ TimeInPhase >= 3
       /\ last.arg = ScenarioReady)
    => last.ret = EXPLORATION

\* C2: whenever a required condition of the gate leaving the user's phase is false on
\* the context, evaluate returns none, whatever the other signals and the dwell time are.
C2_RequiredUnmetBlocks ==
    (Checked /\ RequiredUnmet(LastGate, last.arg)) => last.ret = None

\* a required condition fails while every other condition holds, the collective
\* resonance is full and the minimum duration has passed
C2_Witness ==
    /\ Checked
    /\ RequiredUnmet(LastGate, last.arg)
    /\ \A i \in DOMAIN LastGate.conditions :
          ~LastGate.conditions[i].required => i \in Satisfied(LastGate, last.arg)
    /\ FullResonance(last.arg)
    /\ TimeInPhase >= LastGate.minimum_duration
    /\ last.ret = None

\* C3: evaluate returns none whenever the time in the phase is strictly less than the
\* gate's minimum_duration, even with every condition satisfied and full collective
\* resonance; at exactly minimum_duration such a context is returned the next phase.
C3_MinimumDwell ==
    /\ (Checked /\ TimeInPhase < LastGate.minimum_duration) => last.ret = None
    /\ (Checked /\ TimeInPhase = LastGate.minimum_duration
          /\ AllSatisfied(LastGate, last.arg) /\ FullResonance(last.arg))
       => last.ret = LastGate.to_phase

\* one day short of the minimum duration, with everything else in favour
C3_Witness ==
    /\ Checked
    /\ TimeInPhase = LastGate.minimum_duration - 1
    /\ AllSatisfied(LastGate, last.arg)
    /\ FullResonance(last.arg)
    /\ last.ret = None

\* the phases whose gate is registered without a collective_resonance_threshold
UndeclaredThresholdPhases ==
    {INITIATION, EXPLORATION, TRANSFORMATION, INTEGRATION, TRANSCENDENCE}

WithoutResonance(ctx) == [k \in DOMAIN ctx \ {"collective_resonance"} |-> ctx[k]]

\* C4: a gate registered without a threshold has threshold 0 and is decided
\* independently of context["collective_resonance"]: the answer is the one the same
\* context gives with the signal removed.
C4_UndeclaredThresholdNotApplied ==
    (Checked /\ LastData.current_phase \in UndeclaredThresholdPhases)
    => /\ LastGate.collective_resonance_threshold = 0
       /\ last.ret =
            CheckPhaseTransition(user_phase_data, last.user,
                                 WithoutResonance(last.arg), now).ret

\* C5: the readiness score achieved_weight/total_weight lies in [0,1], is the weight of
\* the satisfied conditions over the weight of all, a phase is returned only if it is
\* at least 0.7, and a score of exactly 0.7 counts as ready.
C5_ReadinessScore ==
    Checked =>
      LET achieved == AchievedWeight(LastGate, last.arg)
          total == TotalWeight(LastGate)
      IN /\ total > 0
         /\ 0 <= achieved /\ achieved <= total
         /\ achieved = WeightSum(LastGate.conditions, Satisfied(LastGate, last.arg))
         /\ last.ret # None => 10 * achieved >= 7 * total
         /\ (10 * achieved = 7 * total
               /\ ~RequiredUnmet(LastGate, last.arg)
               /\ TimeInPhase >= LastGate.minimum_duration
               /\ FullResonance(last.arg))
            => last.ret = LastGate.to_phase

\* the Challenge gate passed on 3.5 of 5.0
C5_Witness ==
    /\ Checked
    /\ LastData.current_phase = CHALLENGE
    /\ AchievedWeight(LastGate, last.arg) = 35
    /\ TotalWeight(LastGate) = 50
    /\ last.ret = TRANSFORMATION

RECURSIVE Follow(_, _)
\* the phase reached from p by n gates
Follow(p, n) == IF n = 0 THEN p ELSE Follow(ApplicableGate(p).to_phase, n - 1)

\* C10: every one of the 7 phases has exactly one gate leaving it, every gate has a
\* condition of positive weight, and the gates lead from Initiation through Exploration,
\* Challenge, Transformation, Integration, Mastery and Transcendence back to Initiation;
\* so every stored user has a gate, and what evaluate returns is that gate's to_phase.
C10_RegistryCycle ==
    /\ Cardinality(SpiralPhase) = 7
    /\ \A p \in SpiralPhase :
          Cardinality({i \in DOMAIN phase_gates : phase_gates[i].from_phase = p}) = 1
    /\ \A i \in DOMAIN phase_gates :
          /\ phase_gates[i].from_phase \in SpiralPhase
          /\ \E j \in DOMAIN phase_gates[i].conditions :
                phase_gates[i].conditions[j].weight > 0
          /\ TotalWeight(phase_gates[i]) > 0
    /\ <<Follow(INITIATION, 1), Follow(INITIATION, 2), Follow(INITIATION, 3),
         Follow(INITIATION, 4), Follow(INITIATION, 5), Follow(INITIATION, 6),
         Follow(INITIATION, 7)>>
       = <<EXPLORATION, CHALLENGE, TRANSFORMATION, INTEGRATION, MASTERY,
           TRANSCENDENCE, INITIATION>>
    /\ \A u \in DOMAIN user_phase_data : HasGate(user_phase_data[u].current_phase)
    /\ (Checked /\ last.ret # None) => last.ret = Follow(LastData.current_phase, 1)

\* evaluate takes the gate that closes the cycle
C10_Witness ==
    /\ Checked
    /\ LastData.current_phase = TRANSCENDENCE
    /\ last.ret = INITIATION

-----------------------------------------------------------------------------
(* Properties of the operations on UserPhaseData, checked under Spec *)

\* the step is transition_phase(u, ...) on a user with stored data
TransitionStep(u) ==
    last'.op = "transition" /\ last'.user = u /\ u \in DOMAIN user_phase_data

\* C6: a transition from Transcendence to Initiation raises the user's spiral_count by
\* exactly 1, every other transition and every other operation leaves it unchanged, and
\* no operation changes the spiral_count of a user it is not called for.
C6_SpiralCount ==
    [][\A u \in DOMAIN user_phase_data :
          /\ u \in DOMAIN user_phase_data'
          /\ user_phase_data'[u].spiral_count =
                IF TransitionStep(u)
                   /\ user_phase_data[u].current_phase = TRANSCENDENCE
                   /\ last'.arg.new_phase = INITIATION
                THEN user_phase_data[u].spiral_count + 1
                ELSE user_phase_data[u].spiral_count]_vars

\* a user has just completed a spiral while another user, still on its first, is stored
C6_Witness ==
    /\ last.op = "transition"
    /\ last.user \in DOMAIN user_phase_data
    /\ LET d == user_phase_data[last.user]
       IN /\ d.phase_history # << >>
          /\ d.phase_history[Len(d.phase_history)].from_phase = TRANSCENDENCE
          /\ d.phase_history[Len(d.phase_history)].to_phase = INITIATION
          /\ d.spiral_count = InitialSpiralCount + 1
    /\ \E v \in DOMAIN user_phase_data \ {last.user} :
          user_phase_data[v].spiral_count = InitialSpiralCount

C9_LazyCreation ==
    last.op \in {"check", "transition", "breakthrough"}
    => /\ last.user \in DOMAIN user_phase_data
       /\ last.op = "transition" =>
             user_phase_data[last.user].current_phase = last.arg.new_phase
       /\ last.op = "breakthrough" =>
             user_phase_data[last.user].breakthrough_moments # << >>

-----------------------------------------------------------------------------
(* Which operations write UserPhaseData, checked under SpecBridge *)

ReadingOps == {"check", "guidance", "interaction", "retrieve", "arc", "completion",
                  "pattern"}

\* the fields of UserPhaseData other than completed_conditions
OtherFields ==
    {"user_id", "current_phase", "phase_entry_time", "phase_history", "spiral_count",
     "phase_resonance", "breakthrough_moments"}

\* C8 as stated: check_phase_transition, get_phase_guidance,
\* store_oracle_interaction and retrieve_user_context leave every field of every
\* user's phase data unchanged, whatever they return.
C8_ReadersLeaveStateUnchanged ==
    [][last'.op \in ReadingOps => user_phase_data' = user_phase_data]_vars

\* what check_phase_transition(user, ctx) may write: names of conditions of the gate
\* leaving the user's phase that ctx satisfies, added to the user's
\* completed_conditions once the minimum duration has elapsed
OnlyCompletedConditionsGrow(user, ctx) ==
    /\ DOMAIN user_phase_data' = DOMAIN user_phase_data
    /\ \A u \in DOMAIN user_phase_data \ {user} : user_phase_data'[u] = user_phase_data[u]
    /\ user \in DOMAIN user_phase_data =>
          LET before == user_phase_data[user]
              after == user_phase_data'[user]
              gate == ApplicableGate(before.current_phase)
          IN /\ \A f \in OtherFields : after[f] = before[f]
             /\ before.completed_conditions \subseteq after.completed_conditions
             /\ after.completed_conditions \ before.completed_conditions \subseteq
                   {gate.conditions[i].name : i \in Satisfied(gate, ctx)}
             /\ now - before.phase_entry_time < gate.minimum_duration =>
                   after.completed_conditions = before.completed_conditions

\* C8, amended: get_phase_guidance, store_oracle_interaction and
\* retrieve_user_context leave every field of every user's phase data unchanged;
\* check_phase_transition leaves every other user's data and every field but
\* completed_conditions of the evaluated user unchanged, and to completed_conditions
\* it only adds names of conditions of the active gate that the context satisfies,
\* and nothing before the minimum duration has elapsed.
C8_OnlyCheckRecordsConditions ==
    [][/\ last'.op \in ReadingOps \ {"check"} => user_phase_data' = user_phase_data
       /\ last'.op = "check" => OnlyCompletedConditionsGrow(last'.user, last'.arg)]_vars

\* an interaction was stored for a user while an evaluation has recorded conditions
\* for one user and another, still short of the minimum duration, has none
C8_Witness ==
    /\ last.op = "interaction"
    /\ last.user \in DOMAIN user_phase_data
    /\ memory_store[last.user] # << >>
    /\ \E u \in DOMAIN user_phase_data : user_phase_data[u].completed_conditions # {}
    /\ \E u \in DOMAIN user_phase_data :
          /\ user_phase_data[u].completed_conditions = {}
          /\ now - user_phase_data[u].phase_entry_time
                < ApplicableGate(user_phase_data[u].current_phase).minimum_duration

-----------------------------------------------------------------------------
(* Breakthroughs in a row, checked under SpecResonance *)

MaxBreakthroughRun == 6

BreakthroughRun(u, breakthrough_data) ==
    /\ u \in DOMAIN user_phase_data =>
          TotalBreakthroughs(user_phase_data) < MaxBreakthroughRun
    /\ user_phase_data' = RecordBreakthrough(user_phase_data, u, breakthrough_data, now)
    /\ last' = Call("breakthrough", u, breakthrough_data, None)
    /\ UNCHANGED <<now, bridge_vars, frames>>

\* two users recording breakthrough after breakthrough, with transitions between
NextResonance ==
    \/ Tick
    \/ \E u \in Users, p \in BridgePhases, age \in LifeAges : StoreUserData(u, p, age)
    \/ \E u \in Users :
          \E p \in TransitionTargets(user_phase_data, u) : Transition(u, p, FALSE)
    \/ \E u \in Users, d \in BreakthroughData : BreakthroughRun(u, d)

SpecResonance == Init /\ [][NextResonance]_vars

\* seq' is seq with exactly one entry appended
GrownByOne(seq, after) ==
    Len(after) = Len(seq) + 1 /\ SubSeq(after, 1, Len(seq)) = seq

\* seq is kept as the beginning of after
KeptIn(seq, after) ==
    Len(after) >= Len(seq) /\ SubSeq(after, 1, Len(seq)) = seq

\* C11: record_breakthrough(user, data) on a stored user appends exactly one entry to
\* the user's breakthrough_moments and sets phase_resonance to min(1.0, old + 0.1),
\* changing no other field and no other user; over every step phase_resonance stays
\* within [0.5, 1.0] and breakthrough_moments keeps its earlier entries.
C11_Breakthrough ==
    [][\A u \in DOMAIN user_phase_data :
          LET d == user_phase_data[u]
              e == user_phase_data'[u]
          IN /\ u \in DOMAIN user_phase_data'
             /\ KeptIn(d.breakthrough_moments, e.breakthrough_moments)
             /\ e.phase_resonance >= 5 /\ e.phase_resonance <= 10
             /\ last'.op = "breakthrough" /\ last'.user = u =>
                   /\ GrownByOne(d.breakthrough_moments, e.breakthrough_moments)
                   /\ e.phase_resonance =
                         IF d.phase_resonance + 1 > 10 THEN 10 ELSE d.phase_resonance + 1
                   /\ e = [d EXCEPT !.breakthrough_moments = e.breakthrough_moments,
                                    !.phase_resonance = e.phase_resonance]
             /\ last'.op = "breakthrough" /\ last'.user # u => e = d]_vars

\* a breakthrough recorded at full resonance: the sum 1.1 was clamped to 1.0
C11_Witness ==
    /\ last.op = "breakthrough"
    /\ last.user \in DOMAIN user_phase_data
    /\ LET d == user_phase_data[last.user]
       IN /\ d.phase_resonance = 10
          /\ d.phase_history = << >>
          /\ Len(d.breakthrough_moments) = 6
    /\ \E v \in DOMAIN user_phase_data \ {last.user} :
          /\ user_phase_data[v].phase_resonance = 5
          /\ user_phase_data[v].breakthrough_moments = << >>

-----------------------------------------------------------------------------
(* Interactions in a row, checked under SpecMemory *)

MaxInteractions == 3

\* a response that carries a resonance of 0
ResponseFaint ==
    OracleResponse(WATER, EXPLORATION, MessageWelcome, None, ImagePhoenix, 0, EmptyContext)

\* a response whose collective_field_data names the user and quotes the input
ResponseNaming ==
    OracleResponse(WATER, EXPLORATION, MessageWelcome, None, None, Absent,
                   [k \in {"archetype", "user_id", "content"} |->
                       IF k = "archetype" THEN "Phoenix"
                       ELSE IF k = "user_id" THEN "u1" ELSE InputChange])

MemoryInteractions ==
    Interactions \cup
    {[response |-> ResponsePhoenix, user_input |-> InputChange,
      context |-> UserContext(EXPLORATION)],
     [response |-> ResponseFaint, user_input |-> InputResolved,
      context |-> UserContext(INITIATION)],
     [response |-> ResponseNaming, user_input |-> InputChange,
      context |-> UserContext(EXPLORATION)]}

Record(u, i) ==
    LET r == StoreOracleInteraction(memory_store, symbolic_threads, narrative_arcs,
                                    collective_patterns, u, i.response, i.user_input,
                                    i.context, now)
    IN /\ TotalMemories(memory_store) < MaxInteractions
       /\ memory_store' = r.memory_store
       /\ symbolic_threads' = r.symbolic_threads
       /\ narrative_arcs' = r.narrative_arcs
       /\ collective_patterns' = r.collective_patterns
       /\ last' = Returned("interaction", u, i, r.ret)
       /\ UNCHANGED <<now, user_phase_data, frames>>

\* two users whose interactions are stored one after the other
NextMemory ==
    \/ Tick
    \/ \E u \in Users, i \in MemoryInteractions : Record(u, i)

SpecMemory == Init /\ [][NextMemory]_vars

\* C12: for every user and symbol, over any sequence of stored interactions the thread
\* is never deleted, first_appearance keeps the value set at creation, and appearances
\* only grows by appending: its earlier entries are neither changed nor removed.
C12_ThreadsPersist ==
    [][\A u \in DOMAIN symbolic_threads :
          /\ u \in DOMAIN symbolic_threads'
          /\ \A s \in DOMAIN symbolic_threads[u] :
                /\ s \in DOMAIN symbolic_threads'[u]
                /\ symbolic_threads'[u][s].first_appearance =
                      symbolic_threads[u][s].first_appearance
                /\ KeptIn(symbolic_threads[u][s].appearances,
                          symbolic_threads'[u][s].appearances)]_vars

\* a symbol first seen on day 0 was recorded again on a later day, in another phase
C12_Witness ==
    /\ last.op = "interaction"
    /\ last.user \in DOMAIN symbolic_threads
    /\ \E s \in DOMAIN symbolic_threads[last.user] :
          LET thread == symbolic_threads[last.user][s]
              n == Len(thread.appearances)
          IN /\ n >= 2
             /\ thread.first_appearance = 0
             /\ thread.appearances[1].timestamp = 0
             /\ thread.appearances[n].timestamp = now
             /\ now > 0
             /\ thread.appearances[n].phase # thread.appearances[1].phase

\* the symbols an interaction's response mentions
Mentioned(response) == {ResponseSymbols(response)[j] : j \in DOMAIN ResponseSymbols(response)}

\* the thread of a symbol, the empty thread when the symbol was never recorded
ThreadOf(threads, u, s) ==
    IF u \in DOMAIN threads /\ s \in DOMAIN threads[u] THEN threads[u][s]
    ELSE SymbolicThread(s, 0)

\* the counter of key k in a counter dictionary, 0 when it has none
CountOf(d, k) ==
    IF \E j \in DOMAIN d : d[j].k = k
    THEN d[CHOOSE j \in DOMAIN d : d[j].k = k].v ELSE 0

RECURSIVE SumOfCounts(_)
SumOfCounts(d) == IF d = << >> THEN 0 ELSE Head(d).v + SumOfCounts(Tail(d))

\* C13: each stored interaction that mentions a symbol adds exactly one appearance to
\* that symbol's thread and raises exactly the counters of the interaction's element
\* and phase by 1, so that the counters of a thread sum to the number of appearances.
C13_OneAppearancePerMention ==
    [][last'.op = "interaction" =>
          \A s \in Mentioned(last'.arg.response) :
             LET before == ThreadOf(symbolic_threads, last'.user, s)
                 after == ThreadOf(symbolic_threads', last'.user, s)
                 element == last'.arg.response.element
                 phase == last'.arg.context.current_phase
             IN /\ Len(after.appearances) = Len(before.appearances) + 1
                /\ CountOf(after.elemental_associations, element) =
                      CountOf(before.elemental_associations, element) + 1
                /\ CountOf(after.phase_associations, phase) =
                      CountOf(before.phase_associations, phase) + 1
                /\ SumOfCounts(after.elemental_associations) = Len(after.appearances)
                /\ SumOfCounts(after.phase_associations) = Len(after.appearances)]_vars

\* how many of the appearances carry the element
ElementCount(appearances, element) ==
    Cardinality({j \in DOMAIN appearances : appearances[j].element = element})

\* the elements no other element appears more often than
DominantElements(appearances) ==
    {e \in {FIRE, WATER, EARTH, AIR, AETHER} :
        /\ ElementCount(appearances, e) > 0
        /\ \A f \in {FIRE, WATER, EARTH, AIR, AETHER} :
              ElementCount(appearances, f) <= ElementCount(appearances, e)}

PhasesOf(appearances) == {appearances[j].phase : j \in DOMAIN appearances}

\* C14: after every record of a symbol whose thread then has at least 2 appearances
\* spanning more than one phase, current_meaning references the phase of the most
\* recent appearance; in every other case, the first appearance included, it references
\* the element with the highest count.
C14_MeaningReferences ==
    [][last'.op = "interaction" =>
          \A s \in Mentioned(last'.arg.response) :
             LET thread == ThreadOf(symbolic_threads', last'.user, s)
                 n == Len(thread.appearances)
             IN IF n >= 2 /\ Cardinality(PhasesOf(thread.appearances)) > 1
                THEN thread.current_meaning.ref = thread.appearances[n].phase
                ELSE thread.current_meaning.ref \in DominantElements(thread.appearances)]_vars

\* C15: after a symbol is recorded with a resonance r in [0, 1], r = 0 included, the
\* thread's archetypal_resonance is r.
C15_ResonanceStored ==
    [][last'.op = "interaction" /\ last'.arg.response.crystal_resonance # Absent =>
          \A s \in Mentioned(last'.arg.response) :
             ThreadOf(symbolic_threads', last'.user, s).archetypal_resonance =
                last'.arg.response.crystal_resonance]_vars

-----------------------------------------------------------------------------
(* A narrative arc from its beginning to its end, checked under SpecArcs *)

MaxArcEvents == 10

\* the user reports a tension as resolved; the response carries no symbol
GrowthInteraction ==
    [response |-> ResponsePlain, user_input |-> InputResolved,
     context |-> UserContext(EXPLORATION)]

RecordGrowth(u) ==
    LET i == GrowthInteraction
        r == StoreOracleInteraction(memory_store, symbolic_threads, narrative_arcs,
                                    collective_patterns, u, i.response, i.user_input,
                                    i.context, now)
    IN /\ Len(Lookup(memory_store, u, << >>)) < MaxArcEvents
       /\ memory_store' = r.memory_store
       /\ symbolic_threads' = r.symbolic_threads
       /\ narrative_arcs' = r.narrative_arcs
       /\ collective_patterns' = r.collective_patterns
       /\ last' = Returned("interaction", u, i, r.ret)
       /\ UNCHANGED <<now, user_phase_data, frames>>

\* two users, each with a first interaction of any kind and then a growth story
NextArcs ==
    \/ \E u \in Users, i \in Interactions : Interaction(u, i)
    \/ \E u \in Users : RecordGrowth(u)

SpecArcs == Init /\ [][NextArcs]_vars

\* the positions of the user's arcs of the theme that are open (completion < 0.9)
OpenArcs(user_arcs, theme) ==
    {j \in DOMAIN user_arcs :
        /\ user_arcs[j].title = theme
        /\ 10 * user_arcs[j].completion_percentage.num
              < 9 * user_arcs[j].completion_percentage.den}

ArcsOf(arcs, u) == IF u \in DOMAIN arcs THEN arcs[u] ELSE << >>

Themes == {theme_patterns[j].theme : j \in DOMAIN theme_patterns}

ThemesOf(user_input) ==
    {ExtractNarrativeThemes(user_input)[j] : j \in DOMAIN ExtractNarrativeThemes(user_input)}

\* C16: every user has at most one open arc per theme; a stored interaction that
\* matches a theme appends one key_event and the guidance to the user's open arc of
\* that title if there is one, and otherwise creates exactly one new arc with that
\* title, chapter "Beginning", one key_event and one active tension; arcs of other
\* themes and of other users are untouched.
C16_OneOpenArcPerTheme ==
    [][/\ \A u \in DOMAIN narrative_arcs', theme \in Themes :
             Cardinality(OpenArcs(narrative_arcs'[u], theme)) <= 1
       /\ last'.op = "interaction" =>
             LET before == ArcsOf(narrative_arcs, last'.user)
                 after == ArcsOf(narrative_arcs', last'.user)
                 matched == ThemesOf(last'.arg.user_input)
                 created == {theme \in matched : OpenArcs(before, theme) = {}}
             IN /\ Len(after) = Len(before) + Cardinality(created)
                /\ \A j \in DOMAIN before :
                      IF before[j].title \in matched /\ j \in OpenArcs(before, before[j].title)
                      THEN /\ GrownByOne(before[j].key_events, after[j].key_events)
                           /\ GrownByOne(before[j].oracle_guidance, after[j].oracle_guidance)
                           /\ after[j].oracle_guidance[Len(after[j].oracle_guidance)] =
                                 last'.arg.response
                           /\ after[j].title = before[j].title
                           /\ after[j].active_tensions = before[j].active_tensions
                      ELSE after[j] = before[j]
                /\ \A theme \in created :
                      \E j \in DOMAIN after \ DOMAIN before :
                         /\ after[j].title = theme
                         /\ after[j].current_chapter = "Beginning"
                         /\ Len(after[j].key_events) = 1
                         /\ Len(after[j].active_tensions) = 1
                /\ \A v \in DOMAIN narrative_arcs \ {last'.user} :
                      narrative_arcs'[v] = narrative_arcs[v]]_vars

\* a user's growth arc was completed and the next growth interaction began a new one,
\* beside the user's arc of another theme and another user's arcs
C16_Witness ==
    /\ last.op = "interaction"
    /\ last.user \in DOMAIN narrative_arcs
    /\ LET user_arcs == narrative_arcs[last.user]
       IN /\ \E j \in DOMAIN user_arcs :
                /\ user_arcs[j].title = "growth"
                /\ j \notin OpenArcs(user_arcs, "growth")
                /\ \E k \in OpenArcs(user_arcs, "growth") : k > j
          /\ \E j \in DOMAIN user_arcs : user_arcs[j].title = "transformation"
    /\ \E v \in DOMAIN narrative_arcs \ {last.user} : narrative_arcs[v] # << >>

-----------------------------------------------------------------------------
(* _calculate_arc_completion on arcs of every shape, checked under SpecCompletion *)

MaxTensions == 3

MaxGuidance == 11

TensionTexts == {IdentifyTension(InputResolved), IdentifyTension(InputChange)}

TensionLists == UNION {[1..n -> TensionTexts] : n \in 0..MaxTensions}

GuidanceLists == {[j \in 1..n |-> ResponsePlain] : n \in 0..MaxGuidance}

\* a NarrativeArc with the given tensions and guidance
ArcWith(tensions, guidance) ==
    [NewArc("u1", "growth", ResponsePlain, InputHello, 0)
        EXCEPT !.active_tensions = tensions, !.oracle_guidance = guidance]

InitCompletion ==
    /\ now = 0
    /\ user_phase_data = [u \in {} |-> 0]
    /\ memory_store = EmptyMap
    /\ symbolic_threads = EmptyMap
    /\ narrative_arcs = EmptyMap
    /\ collective_patterns = CollectivePatternTracker
    /\ frames = NoFrames
    /\ \E tensions \in TensionLists, guidance \in GuidanceLists :
          last = Returned("arc", None, ArcWith(tensions, guidance), Ratio(0, 1))

Complete ==
    /\ last.op = "arc"
    /\ last' = Returned("completion", None, last.arg, CalculateArcCompletion(last.arg))
    /\ UNCHANGED <<now, user_phase_data, bridge_vars, frames>>

NextCompletion == Complete

SpecCompletion == InitCompletion /\ [][NextCompletion]_vars

Completed == last.op = "completion"

TensionCount == Len(last.arg.active_tensions)

ResolvedCount ==
    Cardinality({j \in DOMAIN last.arg.active_tensions :
                    last.arg.active_tensions[j] = IdentifyTension(InputResolved)})

\* ten times min(len(oracle_guidance)/10, 1)
DepthTenths == IF Len(last.arg.oracle_guidance) > 10 THEN 10 ELSE Len(last.arg.oracle_guidance)

\* the result is the fraction num/den
ResultIs(num, den) == last.out.num * den = num * last.out.den

ResultWithin ==
    /\ last.out.den > 0
    /\ 0 <= last.out.num /\ last.out.num <= last.out.den

\* C17 as stated: the completion is (resolved_tension_ratio + min(len(guidance)/10, 1))/2
\* with a ratio of 1.0 when there are no tensions; it lies in [0, 1], and for an arc
\* without tensions it is (1 + depth)/2: at least 0.5, and 1.0 only with 10 or more
\* guidance entries.
C17_CompletionFormula ==
    Completed =>
       /\ ResultWithin
       /\ IF TensionCount = 0
          THEN /\ ResultIs(10 + DepthTenths, 20)
               /\ ResultIs(1, 1) => Len(last.arg.oracle_guidance) >= 10
          ELSE ResultIs(10 * ResolvedCount + DepthTenths * TensionCount, 20 * TensionCount)

\* C17, amended: with at least one tension the completion is
\* (resolved/tensions + min(len(guidance)/10, 1))/2; for an arc without tensions it is
\* 1.0 whatever the guidance; in both cases it lies in [0, 1], and without tensions it
\* is at least 0.5.
C17_CompletionAmended ==
    Completed =>
       /\ ResultWithin
       /\ IF TensionCount = 0
          THEN ResultIs(1, 1) /\ 2 * last.out.num >= last.out.den
          ELSE ResultIs(10 * ResolvedCount + DepthTenths * TensionCount, 20 * TensionCount)

\* the completion of an arc without tensions and without guidance was computed, and is 1
C17_Witness ==
    /\ Completed
    /\ TensionCount = 0
    /\ last.arg.oracle_guidance = << >>
    /\ ResultIs(1, 1)

-----------------------------------------------------------------------------
(* What retrieve_user_context hands to the phase gates, checked under SpecBridge *)

\* the signal names the conditions of the gate read
SignalNames(gate) == {gate.conditions[j].key : j \in DOMAIN gate.conditions}

\* C18: the mapping retrieve_user_context returns for a user contains every signal name
\* read by the conditions of the gate leaving the user's phase (vision_clarity,
\* actions_taken and commitment_level in Initiation), so that evaluating it can return
\* a phase.
C18_ContextCarriesSignals ==
    last.op = "retrieve" /\ last.user \in DOMAIN user_phase_data =>
       SignalNames(ApplicableGate(user_phase_data[last.user].current_phase))
          \subseteq DOMAIN last.out

-----------------------------------------------------------------------------
(* What reaches the collective patterns, checked under SpecMemory *)

\* the fields an anonymized pattern may carry
AnonymousFields == {"theme", "archetype", "element", "resonance", "phase"}

\* C19: whatever the interaction contains, the pattern store_oracle_interaction forwards
\* to the collective tracker carries only theme, element and resonance fields: no entry
\* of the collective log holds a user id or the user's text.
C19_CollectiveLogAnonymous ==
    \A j \in DOMAIN collective_patterns.patterns :
       DOMAIN collective_patterns.patterns[j].data \subseteq AnonymousFields

-----------------------------------------------------------------------------
(* add_pattern called again and again, checked under SpecCollective *)

MaxPatternCalls == 1002

FreeCalls == 2

\* the n-th pattern of a fire response: its resonance changes from call to call
PatternFire(n) ==
    [k \in {"archetype", "element", "resonance"} |->
        IF k = "archetype" THEN "Phoenix" ELSE IF k = "element" THEN FIRE ELSE n % 10]

\* a pattern that carries neither an archetype nor an element
PatternBare == [k \in {"phase"} |-> EXPLORATION]

\* a pattern with an archetype and an element but no resonance
PatternSage ==
    [k \in {"archetype", "element"} |-> IF k = "archetype" THEN "Sage" ELSE WATER]

\* the patterns the n-th call may carry: any of them in the first calls and once the
\* log is full, a fire pattern in between
PatternInputs(n) ==
    IF n < FreeCalls \/ n >= PatternCap THEN {PatternFire(n), PatternBare, PatternSage}
    ELSE {PatternFire(n)}

\* collective_patterns.add_pattern(pattern_data); the clock moves on with every call
AddPatternCall(pattern_data) ==
    /\ now < MaxPatternCalls
    /\ collective_patterns' = AddPattern(collective_patterns, pattern_data, now)
    /\ now' = now + 1
    /\ last' = Call("pattern", None, pattern_data, None)
    /\ UNCHANGED <<user_phase_data, memory_store, symbolic_threads, narrative_arcs, frames>>

NextCollective == \E pattern_data \in PatternInputs(now) : AddPatternCall(pattern_data)

SpecCollective == Init /\ [][NextCollective]_vars

\* log is what remains of all when only the cap most recent entries are kept
MostRecentOf(all, log, cap) ==
    /\ Len(log) = (IF Len(all) > cap THEN cap ELSE Len(all))
    /\ \A j \in 1..Len(log) : log[j] = all[Len(all) - Len(log) + j]

Archetypes == {"Phoenix", "Sage"}

\* C20: after any sequence of add_pattern calls the pattern log holds at most 1000
\* entries and every elemental trend at most 100; a call appends its pattern (and its
\* resonance to the trend of its element) and, where the cap is exceeded, drops the
\* oldest entry, so that the most recent entries remain in arrival order; the counter
\* of an archetype rises by 1 with every call that carries it and is never cut.
C20_BoundedLogs ==
    [][last'.op = "pattern" =>
          LET p == last'.arg
              old == collective_patterns
              new == collective_patterns'
          IN /\ Len(new.patterns) <= 1000
             /\ \A e \in DOMAIN new.elemental_trends : Len(new.elemental_trends[e]) <= 100
             /\ new.patterns # << >>
             /\ new.patterns[Len(new.patterns)].data = p
             /\ MostRecentOf(Append(old.patterns, new.patterns[Len(new.patterns)]),
                             new.patterns, 1000)
             /\ \A j \in 1..Len(new.patterns) :
                   new.patterns[j].timestamp = <<"isoformat", now' - Len(new.patterns) + j - 1>>
             /\ \A e \in DOMAIN new.elemental_trends :
                   IF "element" \in DOMAIN p /\ "resonance" \in DOMAIN p /\ p["element"] = e
                   THEN MostRecentOf(Append(old.elemental_trends[e], p["resonance"]),
                                     new.elemental_trends[e], 100)
                   ELSE new.elemental_trends[e] = old.elemental_trends[e]
             /\ \A a \in Archetypes :
                   CountOf(new.archetypal_frequencies, a) =
                      CountOf(old.archetypal_frequencies, a)
                         + (IF "archetype" \in DOMAIN p /\ p["archetype"] = a THEN 1 ELSE 0)]_vars

\* the log and the fire trend are full and have dropped their oldest entries, while the
\* counter of an archetype has passed the size of the log
C20_Witness ==
    /\ last.op = "pattern"
    /\ now = 1002
    /\ Len(collective_patterns.patterns) = 1000
    /\ collective_patterns.patterns[1].timestamp = <<"isoformat", 2>>
    /\ Len(collective_patterns.elemental_trends[FIRE]) = 100
    /\ CountOf(collective_patterns.archetypal_frequencies, "Phoenix") > 1000

-----------------------------------------------------------------------------
(* add_pattern called by several threads at once, checked under SpecRace.   *)
(* The tracker holds no lock: a thread may be suspended between any two     *)
(* reads and writes of the tracker's attributes.                            *)

MaxCallers == 2

Callers == 1..MaxCallers

\* d[k] = v
DictSet(d, k, v) ==
    IF DictIndex(d, k) = 0 THEN Append(d, [k |-> k, v |-> v])
    ELSE [d EXCEPT ![DictIndex(d, k)].v = v]

\* d.get(k, 0)
DictGet(d, k) == IF DictIndex(d, k) = 0 THEN 0 ELSE d[DictIndex(d, k)].v

\* the tracker after PatternCap calls that each carried a fire pattern
FullTracker ==
    [patterns |->
         [j \in 1..PatternCap |->
             [timestamp |-> <<"isoformat", j - 1>>, data |-> PatternFire(j - 1)]],
     archetypal_frequencies |-> <<[k |-> "Phoenix", v |-> PatternCap]>>,
     elemental_trends |->
         [e \in {FIRE, WATER, EARTH, AIR, AETHER} |->
             IF e = FIRE
             THEN [j \in 1..TrendCap |-> (PatternCap - TrendCap + j - 1) % 10]
             ELSE << >>]]

\* a call of add_pattern(pattern_data) about to run its first statement; count is the
\* value read from archetypal_frequencies, kept the slice read from a list
Frame(pattern_data) ==
    [pc |-> "get_frequency", pattern_data |-> pattern_data, count |-> 0, kept |-> << >>]

\* every caller has entered add_pattern on a tracker that is new or full; the clock
\* counts the patterns logged so far
InitRace ==
    /\ user_phase_data = [u \in {} |-> 0]
    /\ last = NoCall
    /\ memory_store = EmptyMap
    /\ symbolic_threads = EmptyMap
    /\ narrative_arcs = EmptyMap
    /\ collective_patterns \in {CollectivePatternTracker, FullTracker}
    /\ now = Len(collective_patterns.patterns)
    /\ frames = [c \in Callers |-> Frame(PatternFire(c))]

At(c, pc) == frames[c].pc = pc

\* the right-hand side self.archetypal_frequencies.get(archetype, 0) is evaluated
GetFrequency(c) ==
    /\ At(c, "get_frequency")
    /\ frames' =
          IF Has(frames[c].pattern_data, "archetype")
          THEN [frames EXCEPT
                   ![c].pc = "set_frequency",
                   ![c].count = DictGet(collective_patterns.archetypal_frequencies,
                                        frames[c].pattern_data["archetype"])]
          ELSE [frames EXCEPT ![c].pc = "append_trend"]
    /\ UNCHANGED <<now, user_phase_data, bridge_vars, last>>

\* self.archetypal_frequencies[archetype] = <the value read> + 1
SetFrequency(c) ==
    /\ At(c, "set_frequency")
    /\ collective_patterns' =
          [collective_patterns EXCEPT
              !.archetypal_frequencies =
                  DictSet(@, frames[c].pattern_data["archetype"], frames[c].count + 1)]
    /\ frames' = [frames EXCEPT ![c].pc = "append_trend"]
    /\ UNCHANGED <<now, user_phase_data, memory_store, symbolic_threads, narrative_arcs,
                   last>>

\* self.elemental_trends[element].append(resonance)
AppendTrend(c) ==
    LET p == frames[c].pattern_data
    IN /\ At(c, "append_trend")
       /\ IF Has(p, "element") /\ Has(p, "resonance")
          THEN /\ collective_patterns' =
                     [collective_patterns EXCEPT
                         !.elemental_trends[p["element"]] = Append(@, p["resonance"])]
               /\ frames' = [frames EXCEPT ![c].pc = "slice_trend"]
          ELSE /\ frames' = [frames EXCEPT ![c].pc = "append_pattern"]
               /\ UNCHANGED collective_patterns
       /\ UNCHANGED <<now, user_phase_data, memory_store, symbolic_threads,
                      narrative_arcs, last>>

\* if len(self.elemental_trends[element]) > 100: the slice [-100:] is taken
SliceTrend(c) ==
    LET trend == collective_patterns.elemental_trends[frames[c].pattern_data["element"]]
    IN /\ At(c, "slice_trend")
       /\ frames' =
             IF Len(trend) > TrendCap
             THEN [frames EXCEPT ![c].pc = "store_trend",
                                 ![c].kept = LastN(trend, TrendCap)]
             ELSE [frames EXCEPT ![c].pc = "append_pattern"]
       /\ UNCHANGED <<now, user_phase_data, bridge_vars, last>>

\* self.elemental_trends[element] = <the slice taken>
StoreTrend(c) ==
    /\ At(c, "store_trend")
    /\ collective_patterns' =
          [collective_patterns EXCEPT
              !.elemental_trends[frames[c].pattern_data["element"]] = frames[c].kept]
    /\ frames' = [frames EXCEPT ![c].pc = "append_pattern", ![c].kept = << >>]
    /\ UNCHANGED <<now, user_phase_data, memory_store, symbolic_threads, narrative_arcs,
                   last>>

\* self.patterns.append({"timestamp": ..., "data": pattern_data})
AppendPattern(c) ==
    /\ At(c, "append_pattern")
    /\ collective_patterns' =
          [collective_patterns EXCEPT
              !.patterns = Append(@, [timestamp |-> <<"isoformat", now>>,
                                      data |-> frames[c].pattern_data])]
    /\ now' = now + 1
    /\ frames' = [frames EXCEPT ![c].pc = "slice_patterns"]
    /\ UNCHANGED <<user_phase_data, memory_store, symbolic_threads, narrative_arcs, last>>

\* if len(self.patterns) > 1000: the slice [-1000:] is taken; otherwise the call returns
SlicePatterns(c) ==
    /\ At(c, "slice_patterns")
    /\ IF Len(collective_patterns.patterns) > PatternCap
       THEN /\ frames' = [frames EXCEPT
                             ![c].pc = "store_patterns",
                             ![c].kept = LastN(collective_patterns.patterns, PatternCap)]
            /\ UNCHANGED last
       ELSE /\ frames' = [frames EXCEPT ![c].pc = "done"]
            /\ last' = Call("pattern", None, frames[c].pattern_data, None)
    /\ UNCHANGED <<now, user_phase_data, bridge_vars>>

\* self.patterns = <the slice taken>, and the call returns
StorePatterns(c) ==
    /\ At(c, "store_patterns")
    /\ collective_patterns' = [collective_patterns EXCEPT !.patterns = frames[c].kept]
    /\ frames' = [frames EXCEPT ![c].pc = "done", ![c].kept = << >>]
    /\ last' = Call("pattern", None, frames[c].pattern_data, None)
    /\ UNCHANGED <<now, user_phase_data, memory_store, symbolic_threads, narrative_arcs>>

NextRace ==
    \E c \in Callers :
        \/ GetFrequency(c)
        \/ SetFrequency(c)
        \/ AppendTrend(c)
        \/ SliceTrend(c)
        \/ StoreTrend(c)
        \/ AppendPattern(c)
        \/ SlicePatterns(c)
        \/ StorePatterns(c)

SpecRace == InitRace /\ [][NextRace]_vars

\* every caller's add_pattern has returned
AllReturned == \A c \in Callers : frames[c].pc = "done"

\* the last n entries of a list, as a set
Newest(seq, n) == {seq[j] : j \in {i \in DOMAIN seq : i > Len(seq) - n}}

\* C21: concurrent add_pattern calls carrying the same archetype and element lose no
\* update: once all k calls have returned, the archetype's counter has grown by exactly
\* k (every call so far carried the archetype, so the counter equals the number of
\* patterns logged, which the clock counts), and the k newest entries of the element's
\* trend and of the pattern log are the callers' resonances and patterns.
C21_NoLostUpdate ==
    AllReturned =>
        /\ DictGet(collective_patterns.archetypal_frequencies, "Phoenix") = now
        /\ Newest(collective_patterns.elemental_trends[FIRE], MaxCallers)
              = {PatternFire(c)["resonance"] : c \in Callers}
        /\ {e.data : e \in Newest(collective_patterns.patterns, MaxCallers)}
              = {PatternFire(c) : c \in Callers}
        /\ {e.timestamp[2] : e \in Newest(collective_patterns.patterns, MaxCallers)}
              = {now - c : c \in Callers}

-----------------------------------------------------------------------------
(* Two callers running evaluate-then-transition for one user, checked under *)
(* SpecDouble: each call runs to its end, the calls of the two callers may  *)
(* come in any order.                                                       *)

\* the context that satisfies every condition of the gate, with full resonance
ReadyContext(gate) ==
    MakeContext(gate,
                [i \in 1..3 |-> IF i \in DOMAIN gate.conditions
                                THEN gate.conditions[i].threshold + 1 ELSE Absent],
                MaxResonance)

\* the contexts a caller evaluates the user on
DoubleContexts(upd, u) ==
    {EmptyContext,
     ReadyContext(IF u \in DOMAIN upd /\ HasGate(upd[u].current_phase)
                  THEN ApplicableGate(upd[u].current_phase)
                  ELSE phase_gates[1])}

\* a caller about to run: new_phase = check_phase_transition(user_id, context);
\* if new_phase: transition_phase(user_id, new_phase)
Sequence(user_id) == [pc |-> "evaluate", user_id |-> user_id, new_phase |-> None]

InitDouble ==
    /\ now = 0
    /\ user_phase_data = [u \in {} |-> 0]
    /\ last = NoCall
    /\ memory_store = EmptyMap
    /\ symbolic_threads = EmptyMap
    /\ narrative_arcs = EmptyMap
    /\ collective_patterns = CollectivePatternTracker
    /\ frames = [c \in Callers |-> Sequence("u1")]

\* no caller has started yet
NoneStarted == \A c \in Callers : frames[c].pc = "evaluate"

\* the user's record is stored before the callers start
StoreBefore(u, phase, age) ==
    /\ NoneStarted
    /\ StoreUserData(u, phase, age)

\* caller c calls check_phase_transition and keeps what it returned
EvaluateBy(c, ctx) ==
    LET u == frames[c].user_id
        r == CheckPhaseTransition(user_phase_data, u, ctx, now)
    IN /\ At(c, "evaluate")
       /\ user_phase_data' = r.data
       /\ frames' = [frames EXCEPT ![c].new_phase = r.ret,
                                   ![c].pc = IF r.ret # None THEN "transition" ELSE "done"]
       /\ last' = Call("check", u, ctx, r.ret)
       /\ UNCHANGED <<now, bridge_vars>>

\* caller c calls transition_phase with the phase it was given
TransitionBy(c) ==
    LET u == frames[c].user_id
    IN /\ At(c, "transition")
       /\ user_phase_data' =
             TransitionPhase(user_phase_data, u, frames[c].new_phase, FALSE, now)
       /\ frames' = [frames EXCEPT ![c].pc = "done"]
       /\ last' = Call("transition", u,
                     [new_phase |-> frames[c].new_phase, ritual_completed |-> FALSE], None)
       /\ UNCHANGED <<now, bridge_vars>>

NextDouble ==
    \/ \E p \in SpiralPhase : \E age \in EntryAges(p) : StoreBefore("u1", p, age)
    \/ \E c \in Callers :
          \E ctx \in DoubleContexts(user_phase_data, frames[c].user_id) : EvaluateBy(c, ctx)
    \/ \E c \in Callers : TransitionBy(c)

SpecDouble == InitDouble /\ [][NextDouble]_vars

\* every caller's evaluate returned the same phase and every caller has finished
BothGiven(p) ==
    /\ p # None
    /\ \A c \in Callers : frames[c].pc = "done" /\ frames[c].new_phase = p

\* C22: when two evaluate-then-transition sequences for one user interleave so that
\* both evaluate calls return the same next phase before either transition runs, the
\* user ends with exactly one new phase_history record and has advanced exactly one
\* phase: no record with from_phase = to_phase is appended and spiral_count has risen
\* at most once.
C22_DoubleTransitionSerialized ==
    \A p \in SpiralPhase :
        BothGiven(p) =>
            LET data == user_phase_data["u1"]
            IN /\ Len(data.phase_history) = 1
               /\ data.current_phase = p
               /\ \A j \in DOMAIN data.phase_history :
                     data.phase_history[j].from_phase # data.phase_history[j].to_phase
               /\ data.spiral_count <= InitialSpiralCount + 1

-----------------------------------------------------------------------------
(* Every operation on two users, checked under SpecUsers *)

MaxUserRecords == 2

PhoenixInteraction ==
    [response |-> ResponsePhoenix, user_input |-> InputChange,
     context |-> UserContext(INITIATION)]

\* store_oracle_interaction(u, ...), as long as fewer than MaxUserRecords are stored
RecordFor(u, i) ==
    LET r == StoreOracleInteraction(memory_store, symbolic_threads, narrative_arcs,
                                    collective_patterns, u, i.response, i.user_input,
                                    i.context, now)
    IN /\ TotalMemories(memory_store) < MaxUserRecords
       /\ memory_store' = r.memory_store
       /\ symbolic_threads' = r.symbolic_threads
       /\ narrative_arcs' = r.narrative_arcs
       /\ collective_patterns' = r.collective_patterns
       /\ last' = Returned("interaction", u, i, r.ret)
       /\ UNCHANGED <<now, user_phase_data, frames>>

\* two users who are stored, evaluated, moved, given breakthroughs, and whose
\* interactions are recorded and read back
NextUsers ==
    \/ \E u \in Users, p \in BridgePhases, age \in LifeAges : StoreUserData(u, p, age)
    \/ \E u \in Users : Evaluate(u, ScenarioResonant)
    \/ \E u \in Users :
          \E p \in TransitionTargets(user_phase_data, u) : Transition(u, p, FALSE)
    \/ \E u \in Users, d \in BreakthroughData : Breakthrough(u, d)
    \/ \E u \in Users : RecordFor(u, PhoenixInteraction)
    \/ \E u \in Users : Retrieve(u)

SpecUsers == Init /\ [][NextUsers]_vars

\* the operations that are invoked for one user
UserOps == {"check", "transition", "breakthrough", "interaction", "retrieve"}

\* what a mapping holds for a user, None when the user has no entry
EntryOf(mapping, u) == IF u \in DOMAIN mapping THEN <<mapping[u]>> ELSE << >>

\* C23: an operation invoked for user A (evaluate, transition, record_breakthrough,
\* record_interaction, derive_context) leaves the phase state, the interaction records,
\* the symbolic threads and the narrative arcs of every other user B unchanged; only
\* the collective tracker is shared between users.
C23_UsersIndependent ==
    [][last'.op \in UserOps =>
          \A b \in Users \ {last'.user} :
              /\ EntryOf(user_phase_data', b) = EntryOf(user_phase_data, b)
              /\ EntryOf(memory_store', b) = EntryOf(memory_store, b)
              /\ EntryOf(symbolic_threads', b) = EntryOf(symbolic_threads, b)
              /\ EntryOf(narrative_arcs', b) = EntryOf(narrative_arcs, b)]_vars

\* user u1 has just recorded an interaction that reached the collective tracker, while
\* user u2 holds phase state with a transition and a breakthrough, and memories
C23_Witness ==
    /\ last.op = "interaction"
    /\ last.user = "u1"
    /\ Len(collective_patterns.patterns) = 2
    /\ "u2" \in DOMAIN user_phase_data
    /\ Len(user_phase_data["u2"].phase_history) = 1
    /\ Len(user_phase_data["u2"].breakthrough_moments) = 1
    /\ "u2" \in DOMAIN symbolic_threads
    /\ narrative_arcs["u2"] # << >>

-----------------------------------------------------------------------------
(* Contexts with values that are not numbers, checked under SpecMalformed *)

\* the contexts in which each signal the gate reads is satisfied or malformed
MalformedContexts(gate) ==
    {MakeContext(gate, <<a, b, c>>, r) :
        a \in (IF 1 \in DOMAIN gate.conditions
               THEN {gate.conditions[1].threshold + 1, Malformed} ELSE {Absent}),
        b \in (IF 2 \in DOMAIN gate.conditions
               THEN {gate.conditions[2].threshold + 1, Malformed} ELSE {Absent}),
        c \in (IF 3 \in DOMAIN gate.conditions
               THEN {gate.conditions[3].threshold + 1, Malformed} ELSE {Absent}),
        r \in {MaxResonance, Malformed}}

\* the contexts a user is evaluated on: empty, or with malformed signals of its gate
ContextsWithMalformed(upd, u) ==
    {EmptyContext} \cup
    MalformedContexts(IF u \in DOMAIN upd /\ HasGate(upd[u].current_phase)
                      THEN ApplicableGate(upd[u].current_phase)
                      ELSE phase_gates[1])

NextMalformed ==
    \/ \E u \in EvalUsers, p \in SpiralPhase :
          \E age \in EntryAges(p) : StoreUserData(u, p, age)
    \/ \E u \in EvalUsers :
          \E ctx \in ContextsWithMalformed(user_phase_data, u) : Evaluate(u, ctx)

SpecMalformed == Init /\ [][NextMalformed]_vars

\* the context without its malformed values: they count as missing
WellFormed(ctx) ==
    [k \in {x \in DOMAIN ctx : ctx[x] # Malformed} |-> ctx[k]]

\* C24: evaluate never fails on its context: it returns a phase or none and never
\* raises; a malformed value is treated like a missing one (0/false), so the result is
\* the one for the context without it; and an empty context gives none in every phase.
C24_EvaluateNeverRaises ==
    [][last'.op = "check" =>
          /\ last'.ret \in SpiralPhase \cup {None}
          /\ last'.ret =
                CheckPhaseTransition(user_phase_data, last'.user, WellFormed(last'.arg),
                                     now).ret
          /\ last'.arg = EmptyContext => last'.ret = None]_vars

-----------------------------------------------------------------------------
(* Required conditions alone, checked under SpecEval *)

\* the positions of the gate's required conditions
RequiredOf(gate) == {i \in DOMAIN gate.conditions : gate.conditions[i].required}

\* C25: required conditions are necessary but not sufficient: for each of the 7 gates
\* the weight of its required conditions is below 0.7 of the gate's total weight, and
\* an evaluate whose context satisfies exactly the required conditions, with the
\* minimum duration passed and a collective resonance of 1, returns none.
C25_RequiredNotSufficient ==
    /\ Len(phase_gates) = 7
    /\ \A g \in DOMAIN phase_gates :
          /\ RequiredOf(phase_gates[g]) # {}
          /\ 10 * WeightSum(phase_gates[g].conditions, RequiredOf(phase_gates[g]))
                < 7 * TotalWeight(phase_gates[g])
    /\ (Checked
          /\ Satisfied(LastGate, last.arg) = RequiredOf(LastGate)
          /\ TimeInPhase >= LastGate.minimum_duration
          /\ FullResonance(last.arg))
       => last.ret = None

\* the Transformation gate, whose required condition carries half of the weight, was
\* evaluated after its 7 days on a context that satisfies that condition alone
C25_Witness ==
    /\ Checked
    /\ LastData.current_phase = TRANSFORMATION
    /\ Satisfied(LastGate, last.arg) = RequiredOf(LastGate)
    /\ Satisfied(LastGate, last.arg) # {}
    /\ TimeInPhase >= 7
    /\ FullResonance(last.arg)
    /\ last.ret = None

-----------------------------------------------------------------------------
(* The chapters of an arc, checked under SpecChapters *)

\* an interaction whose input opens a transformation story with an unresolved tension
ChangeInteraction ==
    [response |-> ResponsePhoenix, user_input |-> InputChange,
     context |-> UserContext(INITIATION)]

RecordChange(u) ==
    LET i == ChangeInteraction
        r == StoreOracleInteraction(memory_store, symbolic_threads, narrative_arcs,
                                    collective_patterns, u, i.response, i.user_input,
                                    i.context, now)
    IN /\ Len(Lookup(memory_store, u, << >>)) < MaxArcEvents
       /\ memory_store' = r.memory_store
       /\ symbolic_threads' = r.symbolic_threads
       /\ narrative_arcs' = r.narrative_arcs
       /\ collective_patterns' = r.collective_patterns
       /\ last' = Returned("interaction", u, i, r.ret)
       /\ UNCHANGED <<now, user_phase_data, frames>>

\* one user telling a growth story whose tension reads as resolved and a
\* transformation story whose tension does not, in any order
NextChapters ==
    \/ \E u \in EvalUsers : RecordGrowth(u)
    \/ \E u \in EvalUsers : RecordChange(u)

SpecChapters == Init /\ [][NextChapters]_vars

\* the chapter the rule gives for a number of events and a completion
ChapterRule(events, completion) ==
    IF events <= 2 THEN "Beginning"
    ELSE IF events <= 5 THEN "Rising Action"
    ELSE IF events <= 8 THEN "Climax"
    ELSE IF 10 * completion.num > 8 * completion.den THEN "Resolution"
    ELSE "Falling Action"

\* some arc of the user is in its last chapter
Resolved(u) ==
    \E j \in DOMAIN ArcsOf(narrative_arcs, u) :
        narrative_arcs[u][j].current_chapter = "Resolution"

\* the chapter of every arc is the one the rule gives for its events and completion
ChaptersFollowEvents ==
    \A u \in DOMAIN narrative_arcs :
        \A j \in DOMAIN narrative_arcs[u] :
            narrative_arcs[u][j].current_chapter =
                ChapterRule(Len(narrative_arcs[u][j].key_events),
                            narrative_arcs[u][j].completion_percentage)

\* C26: an arc's chapter follows its event count (<= 2 Beginning, <= 5 Rising Action,
\* <= 8 Climax, otherwise Falling Action or, when completion_percentage > 0.8,
\* Resolution), and the lifecycle can be completed: a user who has recorded the
\* interactions of a whole story, more than a Climax takes, has an arc at Resolution.
C26_ChaptersReachResolution ==
    /\ ChaptersFollowEvents
    /\ \A u \in DOMAIN narrative_arcs :
          Len(memory_store[u]) = MaxArcEvents => Resolved(u)

\* what holds instead: no sequence of interactions brings an arc to Resolution
ResolutionNeverReached == \A u \in DOMAIN narrative_arcs : ~Resolved(u)

-----------------------------------------------------------------------------
(* A user moved only as evaluate says, checked under SpecCycle *)

MaxCycleSteps == 8

\* the context that satisfies the first condition of the gate and no other
PartialContext(gate) ==
    MakeContext(gate,
                [i \in 1..3 |-> IF i = 1 THEN gate.conditions[i].threshold + 1 ELSE Absent],
                MaxResonance)

\* the contexts the user is evaluated on: nothing, the first signal of its gate, or
\* every signal of its gate
CycleContexts(upd, u) ==
    LET gate == IF u \in DOMAIN upd /\ HasGate(upd[u].current_phase)
                THEN ApplicableGate(upd[u].current_phase)
                ELSE phase_gates[1]
    IN {EmptyContext, PartialContext(gate), ReadyContext(gate)}

\* a day passes while the stored user waits for the minimum duration of its phase
Day(u) ==
    /\ u \in DOMAIN user_phase_data
    /\ HasGate(user_phase_data[u].current_phase)
    /\ ~DurationMet(user_phase_data[u],
                    ApplicableGate(user_phase_data[u].current_phase), now)
    /\ now' = now + 1
    /\ last' = Call("tick", None, EmptyContext, None)
    /\ UNCHANGED <<user_phase_data, bridge_vars, frames>>

\* new_phase = check_phase_transition(u, ctx) has just returned a phase, and the
\* caller passes it on: transition_phase(u, new_phase)
Advance(u) ==
    /\ last.op = "check"
    /\ last.user = u
    /\ last.ret \in SpiralPhase
    /\ u \in DOMAIN user_phase_data
    /\ Len(user_phase_data[u].phase_history) < MaxCycleSteps
    /\ user_phase_data' = TransitionPhase(user_phase_data, u, last.ret, FALSE, now)
    /\ last' = Call("transition", u,
                  [new_phase |-> last.ret, ritual_completed |-> FALSE], None)
    /\ UNCHANGED <<now, bridge_vars, frames>>

NextCycle ==
    \/ \E u \in EvalUsers, p \in SpiralPhase : StoreUserData(u, p, 0)
    \/ \E u \in EvalUsers : Day(u)
    \/ \E u \in EvalUsers : \E ctx \in CycleContexts(user_phase_data, u) : Evaluate(u, ctx)
    \/ \E u \in EvalUsers : Advance(u)

SpecCycle == Init /\ [][NextCycle]_vars

\* the order of the phases in SpiralPhase
Cycle ==
    <<INITIATION, EXPLORATION, CHALLENGE, TRANSFORMATION, INTEGRATION, MASTERY,
      TRANSCENDENCE>>

\* the phase after p in the cycle, the first one after the last
Successor(p) ==
    LET i == CHOOSE j \in DOMAIN Cycle : Cycle[j] = p
    IN Cycle[(i % Len(Cycle)) + 1]

\* C27: when transition is invoked only with the phase evaluate has just returned for
\* the user, every phase_history record leads from a phase to its successor in the
\* cycle, every record starts where the record before it ended, the last record ends
\* at current_phase, and so no phase of the cycle is skipped.
C27_HistoryFollowsCycle ==
    \A u \in DOMAIN user_phase_data :
        LET h == user_phase_data[u].phase_history
        IN /\ \A j \in DOMAIN h : h[j].to_phase = Successor(h[j].from_phase)
           /\ \A j \in DOMAIN h : j > 1 => h[j].from_phase = h[j - 1].to_phase
           /\ h # << >> => h[Len(h)].to_phase = user_phase_data[u].current_phase

\* a user stored in Exploration has gone once around the whole cycle and one phase on
C27_Witness ==
    /\ "u1" \in DOMAIN user_phase_data
    /\ LET h == user_phase_data["u1"].phase_history
       IN /\ Len(h) = 8
          /\ h[1].from_phase = EXPLORATION
          /\ {h[j].to_phase : j \in DOMAIN h} = SpiralPhase
          /\ user_phase_data["u1"].current_phase = CHALLENGE
          /\ user_phase_data["u1"].spiral_count = 2

-----------------------------------------------------------------------------
(* Forced transitions to any phase, checked under SpecSpiral *)

MaxForced == 3

\* transition_phase(u, new_phase) with a phase of the caller's choosing
Force(u, new_phase) ==
    /\ u \in DOMAIN user_phase_data
    /\ Len(user_phase_data[u].phase_history) < MaxForced
    /\ user_phase_data' = TransitionPhase(user_phase_data, u, new_phase, FALSE, now)
    /\ last' = Call("transition", u,
                  [new_phase |-> new_phase, ritual_completed |-> FALSE], None)
    /\ UNCHANGED <<now, bridge_vars, frames>>

\* a user stored with the defaults of UserPhaseData (spiral_count 1, empty history) who
\* is evaluated, moved to any phase and given a breakthrough, in any order
NextSpiral ==
    \/ \E u \in EvalUsers, p \in SpiralPhase :
          \E age \in {0, ApplicableGate(p).minimum_duration} : StoreUserData(u, p, age)
    \/ \E u \in EvalUsers : \E ctx \in CycleContexts(user_phase_data, u) : Evaluate(u, ctx)
    \/ \E u \in EvalUsers, p \in SpiralPhase : Force(u, p)
    \/ \E u \in EvalUsers, d \in BreakthroughData : Breakthrough(u, d)

SpecSpiral == Init /\ [][NextSpiral]_vars

\* the number of records of the history that lead from Transcendence to Initiation
SpiralsCompleted(h) ==
    Cardinality({j \in DOMAIN h :
                    h[j].from_phase = TRANSCENDENCE /\ h[j].to_phase = INITIATION})

\* C28: for a user who starts with spiral_count 1 and an empty phase_history, after any
\* sequence of evaluate, transition (forced ones to arbitrary phases included) and
\* record_breakthrough calls spiral_count is 1 plus the number of phase_history records
\* from Transcendence to Initiation, and no call lowers it.
C28_SpiralCountsHistory ==
    [][\A u \in DOMAIN user_phase_data' :
          /\ user_phase_data'[u].spiral_count =
                1 + SpiralsCompleted(user_phase_data'[u].phase_history)
          /\ u \in DOMAIN user_phase_data =>
                user_phase_data'[u].spiral_count >= user_phase_data[u].spiral_count]_vars

\* forced from Transcendence to Initiation, elsewhere, and from Transcendence to
\* Initiation again: the user is on its third spiral
C28_Witness ==
    /\ "u1" \in DOMAIN user_phase_data
    /\ last.op = "transition"
    /\ LET d == user_phase_data["u1"]
       IN /\ Len(d.phase_history) = 3
          /\ d.phase_history[1].to_phase = INITIATION
          /\ d.phase_history[2].to_phase = TRANSCENDENCE
          /\ d.phase_history[3].to_phase = INITIATION
          /\ SpiralsCompleted(d.phase_history) = 2
          /\ d.spiral_count = 3

-----------------------------------------------------------------------------
(* completed_conditions, checked under SpecCycle *)

\* the names of the conditions of the gate leaving the phase
ConditionNames(phase) ==
    {ApplicableGate(phase).conditions[i].name :
        i \in DOMAIN ApplicableGate(phase).conditions}

\* the names of the conditions of the user's gate that the context satisfies
SatisfiedNames(data, ctx) ==
    LET gate == ApplicableGate(data.current_phase)
    IN {gate.conditions[i].name : i \in Satisfied(gate, ctx)}

\* C29: completed_conditions of a user holds only names of conditions of the gate
\* leaving the user's current phase, each found satisfied by an evaluate since the last
\* transition at a time when the minimum duration had elapsed: a new record and a
\* transition leave it empty, an evaluate after the minimum duration adds exactly the
\* names its context satisfies, an evaluate before it (which returns none) adds
\* nothing, and no other step changes it.
C29_CompletedConditions ==
    [][\A u \in DOMAIN user_phase_data' :
          LET after == user_phase_data'[u]
          IN /\ after.completed_conditions \subseteq ConditionNames(after.current_phase)
             /\ IF u \notin DOMAIN user_phase_data
                THEN after.completed_conditions = {}
                ELSE LET before == user_phase_data[u]
                         gate == ApplicableGate(before.current_phase)
                     IN IF last'.op = "transition" /\ last'.user = u
                        THEN after.completed_conditions = {}
                        ELSE IF last'.op = "check" /\ last'.user = u
                        THEN IF now - before.phase_entry_time >= gate.minimum_duration
                             THEN after.completed_conditions =
                                     before.completed_conditions
                                        \cup SatisfiedNames(before, last'.arg)
                             ELSE /\ last'.ret = None
                                  /\ after.completed_conditions =
                                        before.completed_conditions
                        ELSE after.completed_conditions = before.completed_conditions]_vars

\* after a transition the user has been evaluated in its new phase, once the minimum
\* duration had passed, on a context that satisfies one condition of the new gate:
\* evaluate returned none and that condition's name is all that is recorded
C29_Witness ==
    /\ Checked
    /\ last.ret = None
    /\ LastData.phase_history # << >>
    /\ TimeInPhase >= LastGate.minimum_duration
    /\ last.arg = PartialContext(LastGate)
    /\ LastData.completed_conditions = {LastGate.conditions[1].name}

-----------------------------------------------------------------------------
(* The life of an arc, checked under SpecChapters *)

\* the completion is at least 0.9: _find_matching_arc passes the arc over
Closed(arc) == ~Less(arc.completion_percentage, Ratio(9, 10))

\* C30: over any sequence of record_interaction calls an arc's completion_percentage
\* never decreases, its key_events and oracle_guidance have the same length and it has
\* exactly one active tension; once its completion has reached 0.9 the arc is never
\* modified again; and an arc whose tension is not marked resolved never exceeds 0.5,
\* so it never closes.
C30_ArcLife ==
    [][\A u \in DOMAIN narrative_arcs' :
          /\ \A j \in DOMAIN narrative_arcs'[u] :
                LET arc == narrative_arcs'[u][j]
                IN /\ Len(arc.key_events) = Len(arc.oracle_guidance)
                   /\ Len(arc.active_tensions) = 1
                   /\ ~TensionResolved(arc.active_tensions[1]) =>
                         /\ 2 * arc.completion_percentage.num <= arc.completion_percentage.den
                         /\ ~Closed(arc)
          /\ \A j \in DOMAIN ArcsOf(narrative_arcs, u) :
                /\ j \in DOMAIN narrative_arcs'[u]
                /\ ~Less(narrative_arcs'[u][j].completion_percentage,
                         narrative_arcs[u][j].completion_percentage)
                /\ Closed(narrative_arcs[u][j]) =>
                      narrative_arcs'[u][j] = narrative_arcs[u][j]]_vars

\* a growth arc closed at 0.9 with its 8th event and was left alone by the next growth
\* interaction, which opened a new arc, beside an arc whose tension is not resolved
C30_Witness ==
    /\ last.op = "interaction"
    /\ last.arg = GrowthInteraction
    /\ "u1" \in DOMAIN narrative_arcs
    /\ \E i, j, k \in DOMAIN narrative_arcs["u1"] :
          /\ i < j
          /\ narrative_arcs["u1"][i].title = "growth"
          /\ Closed(narrative_arcs["u1"][i])
          /\ Len(narrative_arcs["u1"][i].key_events) = 8
          /\ narrative_arcs["u1"][j].title = "growth"
          /\ Len(narrative_arcs["u1"][j].key_events) = 1
          /\ ~TensionResolved(narrative_arcs["u1"][k].active_tensions[1])

====
